---------------------------- MODULE Spec2Model ----------------------------
(***************************************************************************)
(* State-machine model of the rating and series-probability engine of the  *)
(* NBA Analytics Suite: the Elo calculators of app.py,                     *)
(* enhanced_elo_calculator.py, nba_elo_calculator.py and elo_visualizer.py *)
(* and the best-of-7 series recursion of app.py.                           *)
(*                                                                         *)
(* Arithmetic.  The Python code computes in binary floating point; the     *)
(* model computes in fixed point.  A rating is an integer number of        *)
(* 1/RatingScale Elo points, an expected score and a K-factor are exact    *)
(* fractions [n, d], and a product is brought back to the rating grid by   *)
(* Quantize, which rounds to nearest with ties away from zero and so, like *)
(* real arithmetic, commutes with negation.  The rounding error of IEEE    *)
(* doubles (a few units in the last place) is outside the model.           *)
(***************************************************************************)
EXTENDS Integers, Sequences, FiniteSets, TLC

(***************************************************************************)
(* Bounds of the model.                                                    *)
(***************************************************************************)
\* update_elo calls (and other operations) in one behaviour
MaxCalls == 2
\* the total_games a caller passes is 0 or TotalGames
TotalGames == 2
\* rating units per Elo point
RatingScale == 100
\* games in a game file
MaxFileLen == 2
\* distinct game dates in a file
MaxDate == 2
\* a per-game win probability is a multiple of 1/ProbDen, ProbDen being
\* twice ProbHalf (so that 0.5 is one of the probabilities)
ProbHalf == 2
\* the win counts a caller passes are 0..MaxWins
MaxWins == 5
\* the games_needed a caller passes are 1..MaxGamesNeeded
MaxGamesNeeded == 5
\* a K-factor is asked for game_number and total_games in 0..MaxSeasonGames
MaxSeasonGames == 6
\* a probability handed to an odds conversion is a multiple of 1/ProbSteps
ProbSteps == 20
\* the percentages handed to calculate_market_edge are the multiples of 10
\* up to 10 * MaxPercentStep
MaxPercentStep == 12
\* a season's game file has at most MaxScheduleLen games
MaxScheduleLen == 5
\* a pre-game rating is at most MaxRatingSteps steps of RatingStep points
\* away from the initial rating
MaxRatingSteps == 2

ProbDen == 2 * ProbHalf

(***************************************************************************)
(* Program constants.                                                      *)
(***************************************************************************)
InitialElo == 1000
EloDivisor == 400
MovBase == 20
DefaultK == 20

Teams == {"BOS", "LAL", "NYK"}
\* (home team, visitor team) of the games played
Matchups == {<<"BOS", "LAL">>, <<"LAL", "NYK">>, <<"NYK", "BOS">>}
Instances == {1, 2}
\* (home score, visitor score): a home win by 10, a visitor win by 1, a tie
ScorePairs == {<<110, 100>>, <<100, 101>>, <<100, 100>>}

(***************************************************************************)
(* Fixed-point helpers.                                                    *)
(***************************************************************************)
Abs(x) == IF x >= 0 THEN x ELSE -x

Max(x, y) == IF x >= y THEN x ELSE y

\* F(v), with v evaluated once
Let1(v, F(_)) == CHOOSE y \in {F(x) : x \in {v}} : TRUE

\* n/d rounded to the nearest integer, ties away from zero (d > 0)
Quantize(n, d) ==
    IF n >= 0 THEN (2 * n + d) \div (2 * d)
              ELSE -((2 * (-n) + d) \div (2 * d))

\* 1000 * ln(n) for n = 1 .. 21
LnMilli ==
    <<0, 693, 1099, 1386, 1609, 1792, 1946, 2079, 2197, 2303, 2398,
      2485, 2565, 2639, 2708, 2773, 2833, 2890, 2944, 2996, 3045>>

\* math.log(x) / math.log(base), in thousandths
LogRatioMilli(x, base) == Quantize(LnMilli[x] * 1000, LnMilli[base])

\* 1000 * 10^(k/8) for k = 0 .. 8
Pow10Table == <<1000, 1334, 1778, 2371, 3162, 4217, 5623, 7499, 10000>>

\* the fixed-point representation of 1 in Pow10
PowScale == Pow10Table[1]

RECURSIVE TenTo(_)
TenTo(n) == IF n = 0 THEN 1 ELSE 10 * TenTo(n - 1)

\* PowScale * 10^(x / 400) for a rating difference x >= 0 in rating
\* units: the whole powers of ten exactly, the fraction by linear
\* interpolation in Pow10Table.
Pow10(x) ==
    LET unit  == EloDivisor * RatingScale
        step  == unit \div 8
        whole == x \div unit
        frac  == x % unit
        seg   == frac \div step
        off   == frac % step
        lo    == Pow10Table[seg + 1]
        hi    == Pow10Table[seg + 2]
    IN  TenTo(whole) * (lo + (((hi - lo) * off) \div step))

(***************************************************************************)
(* Python dictionaries.  A dict is a function whose domain is its key set; *)
(* reading a missing key of a defaultdict inserts the default.             *)
(***************************************************************************)
EmptyDict == [t \in {} |-> 0]

Put(d, key, val) ==
    [x \in (DOMAIN d) \cup {key} |-> IF x = key THEN val ELSE d[x]]

\* d[key] of a defaultdict: the dict after the read
Touch(d, key, default) == IF key \in DOMAIN d THEN d ELSE Put(d, key, default)

\* a faulty variant of Append_history: the entry replaces the list
Append_history_overwriting(history, team, entry) ==
    [Touch(history, team, <<>>) EXCEPT ![team] = <<entry>>]

\* self.elo_history[team].append(entry)
Append_history(history, team, entry) ==
    LET h == Touch(history, team, <<>>)
    IN  [h EXCEPT ![team] = Append(@, entry)]

(***************************************************************************)
(* The Elo formulas (shared by the calculators).                           *)
(***************************************************************************)
\* a faulty variant of expected_score: the sign of the rating difference is
\* lost, so the two expectations of a game no longer add up to 1
expected_score_unsigned(rating_a, rating_b) ==
    [n |-> PowScale, d |-> PowScale + Pow10(Abs(rating_b - rating_a))]

\* 1 / (1 + 10**((rating_b - rating_a) / 400)) as a fraction [n, d];
\* 10**(-y) is 1 / 10**y.
expected_score(rating_a, rating_b) ==
    LET e(x) == IF x >= 0
                THEN Let1(Pow10(x), LAMBDA p : [n |-> PowScale, d |-> PowScale + p])
                ELSE Let1(Pow10(-x), LAMBDA p : [n |-> p, d |-> p + PowScale])
    IN  Let1(rating_b - rating_a, e)

\* a faulty variant of mov_multiplier: log(score_diff + 2), positive for a
\* tied score
mov_multiplier_positive(score_diff) == LogRatioMilli(score_diff + 2, MovBase)

\* math.log(score_diff + 1) / math.log(20), in thousandths
mov_multiplier(score_diff) == LogRatioMilli(score_diff + 1, MovBase)

\* a faulty variant of rating_change: expected - actual for actual - expected
rating_change_reversed(k_factor, mov, actual, expected) ==
    Quantize(Quantize(k_factor.n * mov * RatingScale, k_factor.d * 1000)
                 * (expected.n - actual * expected.d), expected.d)

\* a faulty variant of rating_change: only the winner's rating moves
rating_change_winner_only(k_factor, mov, actual, expected) ==
    IF actual = 0 THEN 0
    ELSE Quantize(Quantize(k_factor.n * mov * RatingScale, k_factor.d * 1000)
                      * (expected.d - expected.n), expected.d)

\* rating + k_factor * mov_multiplier * (actual - expected), on the rating
\* grid; k_factor and expected are fractions, actual is 0 or 1.
rating_change(k_factor, mov, actual, expected) ==
    LET kmov == Quantize(k_factor.n * mov * RatingScale, k_factor.d * 1000)
    IN  Let1(expected,
             LAMBDA e : Quantize(kmov * (actual * e.d - e.n), e.d))

\* a faulty variant of new_ratings: two sequential single-team updates, the
\* second expectation computed from the rating the first one produced
new_ratings_sequential(rating_a, rating_b, actual_a, actual_b, mov, k_factor) ==
    LET new_rating_a ==
            rating_a + rating_change(k_factor, mov, actual_a,
                                     expected_score(rating_a, rating_b))
        new_rating_b ==
            rating_b + rating_change(k_factor, mov, actual_b,
                                     expected_score(rating_b, new_rating_a))
    IN  <<new_rating_a, new_rating_b>>

\* "Calculate expected scores" and "Update ratings" of update_elo: both
\* expectations from the ratings read at the start of the call
new_ratings(rating_a, rating_b, actual_a, actual_b, mov, k_factor) ==
    LET expected_a == expected_score(rating_a, rating_b)
        expected_b == expected_score(rating_b, rating_a)
        new_rating_a ==
            rating_a + rating_change(k_factor, mov, actual_a, expected_a)
        new_rating_b ==
            rating_b + rating_change(k_factor, mov, actual_b, expected_b)
    IN  <<new_rating_a, new_rating_b>>

\* What one rating update did: its arguments, the ratings it read and the
\* ratings it wrote (a record of the call, kept for the properties).
Entry(team_a, team_b, score_a, score_b, k_factor, rating_a, rating_b, new) ==
    [team_a |-> team_a, team_b |-> team_b,
     score_a |-> score_a, score_b |-> score_b, k_factor |-> k_factor,
     rating_a |-> rating_a, rating_b |-> rating_b,
     new_rating_a |-> new[1], new_rating_b |-> new[2]]

(***************************************************************************)
(* The game files and their loaders.                                       *)
(***************************************************************************)
\* the game at position i of a file: its teams and final score
FileMatchups ==
    <<[home_team |-> "BOS", visitor_team |-> "LAL",
       home_score |-> 110, visitor_score |-> 100],
      [home_team |-> "LAL", visitor_team |-> "NYK",
       home_score |-> 100, visitor_score |-> 101],
      [home_team |-> "NYK", visitor_team |-> "BOS",
       home_score |-> 100, visitor_score |-> 100]>>

\* what varies in a game of a file: an unfinished game, or a finished one
\* with its date and stage
Unfinished == [finished |-> FALSE, date |-> 1, stage |-> 2]

\* the stage values of a game file: 1 preseason, 2 regular season,
\* 3 playoffs, 4 a stage after the playoffs
Stages == {1, 2, 3, 4}

GameAttrs ==
    {Unfinished} \cup
    [finished : {TRUE}, date : 1..MaxDate, stage : Stages]

RawGame(i, a) ==
    [id |-> i, date |-> a.date, stage |-> a.stage, finished |-> a.finished,
     home_team |-> FileMatchups[((i - 1) % 3) + 1].home_team,
     visitor_team |-> FileMatchups[((i - 1) % 3) + 1].visitor_team,
     home_score |-> FileMatchups[((i - 1) % 3) + 1].home_score,
     visitor_score |-> FileMatchups[((i - 1) % 3) + 1].visitor_score]

\* the contents data['response'] of a game file
Files ==
    UNION {{[i \in 1..n |-> RawGame(i, f[i])] : f \in [1..n -> GameAttrs]} :
           n \in 0..MaxFileLen}

\* list.sort(key=lambda x: x['date']): a stable insertion by date
RECURSIVE InsertByDate(_, _)
InsertByDate(sorted, g) ==
    IF sorted = <<>> THEN <<g>>
    ELSE IF sorted[Len(sorted)].date <= g.date THEN Append(sorted, g)
    ELSE Append(InsertByDate(SubSeq(sorted, 1, Len(sorted) - 1), g),
                sorted[Len(sorted)])

RECURSIVE SortByDate(_)
SortByDate(games) ==
    IF games = <<>> THEN <<>>
    ELSE InsertByDate(SortByDate(SubSeq(games, 1, Len(games) - 1)),
                      games[Len(games)])

IsFinished(g) == g.finished
IsRegular(g) == g.stage <= 2
IsPlayoff(g) == g.stage = 3
NotPreseason(g) == g.stage # 1

\* _load_games_from_file, load_and_process_games, load_games: the finished
\* games, sorted by date
load_games(file) == SortByDate(SelectSeq(file, IsFinished))

\* app.py load_games_data: the finished games but the preseason, sorted
load_games_data(file) ==
    SortByDate(SelectSeq(SelectSeq(file, IsFinished), NotPreseason))

\* initial_k * (1 - progress * 0.75) + min_k * progress * 0.75 with
\* progress = game_number / total, as a fraction; base2 is twice initial_k
DecreasingK(base2, min_k, game_number, total) ==
    [n |-> base2 * (4 * total - 3 * game_number) + 2 * min_k * 3 * game_number,
     d |-> 8 * total]

\* max(k, min_k)
FloorK(k, min_k) == IF k.n >= min_k * k.d THEN k ELSE [n |-> min_k, d |-> 1]

(***************************************************************************)
(* enhanced_elo_calculator.py: EnhancedEloCalculator.                      *)
(***************************************************************************)
None == "None"
Seasons == {"2023-24", "2024-25"}

NewSeason ==
    [team_elos |-> EmptyDict, game_count |-> 0,
     elo_history |-> EmptyDict, games_processed |-> <<>>]

\* EnhancedEloCalculator.__init__; current is what
\* season_manager.get_current_season() answers
EnhancedEloCalculator_init(current) ==
    [initial_elo |-> InitialElo * RatingScale,
     initial_k |-> 40, min_k |-> 10,
     manager_current |-> current,
     current_season_id |-> None,
     season_data |-> EmptyDict]

\* EnhancedEloCalculator.initialize_season
initialize_season(e, season_id) ==
    LET sid == IF season_id = None
               THEN (IF e.manager_current # None
                     THEN e.manager_current ELSE "2024-25")
               ELSE season_id
    IN  [e EXCEPT !.current_season_id = sid,
                  !.season_data = Touch(@, sid, NewSeason)]

\* EnhancedEloCalculator.get_season_data: the calculator after the call and
\* the key of the season dictionary returned (KeyError: raised)
get_season_data(e, season_id) ==
    LET sid == IF season_id # None THEN season_id ELSE e.current_season_id
        e1  == IF sid \notin DOMAIN e.season_data
               THEN initialize_season(e, sid) ELSE e
    IN  [enh |-> e1, key |-> sid, raised |-> sid \notin DOMAIN e1.season_data]

\* EnhancedEloCalculator.get_season_rankings: the calculator after the call
\* (the sorted list it returns is left out)
get_season_rankings(e, season_id) == get_season_data(e, season_id)

\* EnhancedEloCalculator.format_season_display: get_season_data, then
\* get_season_rankings (the text it returns is left out)
format_season_display(e, season_id) ==
    LET got == get_season_data(e, season_id)
    IN  IF got.raised THEN got ELSE get_season_rankings(got.enh, season_id)

\* the methods that read a season
Readers == {"get_season_data", "get_season_rankings", "format_season_display"}

ReadSeason(reader, e, season_id) ==
    IF reader = "get_season_data" THEN get_season_data(e, season_id)
    ELSE IF reader = "get_season_rankings" THEN get_season_rankings(e, season_id)
    ELSE format_season_display(e, season_id)

\* EnhancedEloCalculator.calculate_k_factor
Enh_calculate_k_factor(e, game_number, total_games, is_playoffs) ==
    LET base2 == IF is_playoffs THEN 3 * e.initial_k ELSE 2 * e.initial_k
    IN  FloorK(DecreasingK(base2, e.min_k, game_number, Max(total_games, 1)),
               e.min_k)

\* EnhancedEloCalculator.update_elo
Enh_update_elo(e, team_a, team_b, score_a, score_b, k_factor, season_id) ==
    LET actual_a == IF score_a > score_b THEN 1 ELSE 0
        actual_b == 1 - actual_a
        mov      == mov_multiplier(Abs(score_a - score_b))
        write(got, elos1, new) ==
            [enh |-> [got.enh EXCEPT
                 !.season_data[got.key].team_elos =
                     Put(Put(elos1, team_a, new[1]), team_b, new[2]),
                 !.season_data[got.key].elo_history =
                     Append_history(Append_history(@, team_a, new[1]),
                                    team_b, new[2])],
             raised |-> FALSE, key |-> got.key,
             trace |-> <<Entry(team_a, team_b, score_a, score_b, k_factor,
                               elos1[team_a], elos1[team_b], new)>>]
        update(got, elos1) ==
            Let1(new_ratings(elos1[team_a], elos1[team_b],
                             actual_a, actual_b, mov, k_factor),
                 LAMBDA new : write(got, elos1, new))
        run(got) ==
            IF got.raised
            THEN [enh |-> got.enh, raised |-> TRUE, key |-> got.key,
                  trace |-> <<>>]
            ELSE Let1(Touch(Touch(got.enh.season_data[got.key].team_elos,
                                  team_a, e.initial_elo),
                            team_b, e.initial_elo),
                      LAMBDA elos1 : update(got, elos1))
    IN  Let1(get_season_data(e, season_id), run)

\* one loop of process_season over games[i+1 ..]: the K-factor of game i is
\* calculate_k_factor(offset + i, total, is_playoffs); key is the season
\* dictionary the local season_data refers to
RECURSIVE Enh_process_games(_, _, _, _, _, _, _, _)
Enh_process_games(st, games, i, offset, total, is_playoffs, season_id, key) ==
    IF i >= Len(games) THEN st
    ELSE
      LET game == games[i + 1]
          k    == Enh_calculate_k_factor(st.enh, offset + i, total, is_playoffs)
          next(u) ==
              [enh |-> [u.enh EXCEPT
                          !.season_data[key].game_count = @ + 1,
                          !.season_data[key].games_processed = Append(@, game)],
               trace |-> st.trace \o
                         [j \in 1..Len(u.trace) |->
                             [id |-> game.id, date |-> game.date,
                              stage |-> game.stage] @@ u.trace[j]]]
      IN  Let1(Let1(Enh_update_elo(st.enh, game.home_team, game.visitor_team,
                                   game.home_score, game.visitor_score,
                                   k, season_id), next),
               LAMBDA st2 : Enh_process_games(st2, games, i + 1, offset, total,
                                              is_playoffs, season_id, key))

\* EnhancedEloCalculator.process_season
process_season(e, season_id, file) ==
    LET e1       == initialize_season(e, season_id)
        got      == get_season_data(e1, season_id)
        games    == load_games(file)
        regular_season_games == SelectSeq(games, IsRegular)
        playoff_games        == SelectSeq(games, IsPlayoff)
        regular == Enh_process_games([enh |-> got.enh, trace |-> <<>>],
                       regular_season_games, 0, 0, Len(regular_season_games),
                       FALSE, season_id, got.key)
        playoffs(st1) == Enh_process_games(st1, playoff_games, 0,
                             Len(regular_season_games), Len(games),
                             TRUE, season_id, got.key)
        return(st2) ==
            [enh |-> st2.enh, trace |-> st2.trace, games |-> games,
             key |-> got.key,
             result |-> [total_games |-> Len(games),
                         regular_season_games |-> Len(regular_season_games),
                         playoff_games |-> Len(playoff_games)]]
    IN  Let1(regular, LAMBDA st1 : Let1(playoffs(st1), return))

(***************************************************************************)
(* nba_elo_calculator.py: EloCalculator and main.                          *)
(***************************************************************************)
\* EloCalculator.__init__
Nba_EloCalculator_init ==
    [initial_elo |-> InitialElo * RatingScale, initial_k |-> 40, min_k |-> 10,
     team_elos |-> EmptyDict, game_count |-> 0, elo_history |-> EmptyDict]

\* EloCalculator.calculate_k_factor, or its ZeroDivisionError
Nba_calculate_k_factor(c, game_number, total_games) ==
    IF total_games = 0
    THEN [raised |-> TRUE, k |-> [n |-> 0, d |-> 1]]
    ELSE [raised |-> FALSE,
          k |-> FloorK(DecreasingK(2 * c.initial_k, c.min_k,
                                   game_number, total_games), c.min_k)]

\* EloCalculator.update_elo
Nba_update_elo(c, team_a, team_b, score_a, score_b, k_factor) ==
    LET a_won    == score_a > score_b
        actual_a == IF a_won THEN 1 ELSE 0
        actual_b == IF a_won THEN 0 ELSE 1
        mov      == mov_multiplier(Abs(score_a - score_b))
        write(elos1, new) ==
            [calc |-> [c EXCEPT !.team_elos =
                          Put(Put(elos1, team_a, new[1]), team_b, new[2])],
             entry |-> Entry(team_a, team_b, score_a, score_b, k_factor,
                             elos1[team_a], elos1[team_b], new)]
        run(elos1) ==
            Let1(new_ratings(elos1[team_a], elos1[team_b],
                             actual_a, actual_b, mov, k_factor),
                 LAMBDA new : write(elos1, new))
    IN  Let1(Touch(Touch(c.team_elos, team_a, c.initial_elo),
                   team_b, c.initial_elo), run)

\* one loop of main over games[i+1 ..]; only the regular-season loop stores
\* the Elo history
RECURSIVE Nba_process_games(_, _, _, _, _, _)
Nba_process_games(st, games, i, offset, total, store_history) ==
    IF i >= Len(games) THEN st
    ELSE
      LET game == games[i + 1]
          kf   == Nba_calculate_k_factor(st.calc, offset + i, total)
          next(u) ==
              [calc |->
                  IF store_history
                  THEN [u.calc EXCEPT
                          !.game_count = @ + 1,
                          !.elo_history =
                            Append_history(
                              Append_history(@, game.home_team,
                                  u.calc.team_elos[game.home_team]),
                              game.visitor_team,
                              u.calc.team_elos[game.visitor_team])]
                  ELSE [u.calc EXCEPT !.game_count = @ + 1],
               trace |-> Append(st.trace,
                                [id |-> game.id, date |-> game.date,
                                 stage |-> game.stage] @@ u.entry)]
      IN  Let1(Let1(Nba_update_elo(st.calc, game.home_team, game.visitor_team,
                                   game.home_score, game.visitor_score, kf.k),
                    next),
               LAMBDA st2 : Nba_process_games(st2, games, i + 1, offset, total,
                                              store_history))

\* main, up to the display of the results
Nba_main(file) ==
    LET games    == load_games(file)
        elo_calc == Nba_EloCalculator_init
        regular_season_games == SelectSeq(games, IsRegular)
        playoff_games        == SelectSeq(games, IsPlayoff)
        total_games          == Len(games)
        regular == Nba_process_games([calc |-> elo_calc, trace |-> <<>>],
                       regular_season_games, 0, 0, Len(regular_season_games),
                       TRUE)
        playoffs(st1) == Nba_process_games(st1, playoff_games, 0,
                             Len(regular_season_games), total_games, FALSE)
        return(st2) == [calc |-> st2.calc, trace |-> st2.trace, games |-> games]
    IN  Let1(regular, LAMBDA st1 : Let1(playoffs(st1), return))

(***************************************************************************)
(* elo_visualizer.py: calculate_detailed_elo.                              *)
(***************************************************************************)
\* the body of either loop of calculate_detailed_elo for one game: elos and
\* elo_history after it
Vis_update(v, game, k, stage_name) ==
    LET home_won    == game.home_score > game.visitor_score
        home_actual == IF home_won THEN 1 ELSE 0
        away_actual == IF home_won THEN 0 ELSE 1
        mov   == mov_multiplier(Abs(game.home_score - game.visitor_score))
        away(home_expected) ==
            [n |-> home_expected.d - home_expected.n, d |-> home_expected.d]
        store(elos1, elos3) ==
            [vis |-> [v EXCEPT
                 !.elos = elos3,
                 !.elo_history =
                     Append_history(
                         Append_history(@, game.home_team,
                             [date |-> game.date,
                              elo |-> elos3[game.home_team],
                              stage |-> stage_name]),
                         game.visitor_team,
                         [date |-> game.date,
                          elo |-> elos3[game.visitor_team],
                          stage |-> stage_name])],
             entry |-> [id |-> game.id, date |-> game.date,
                        stage |-> game.stage]
                       @@ Entry(game.home_team, game.visitor_team,
                                game.home_score, game.visitor_score, k,
                                elos1[game.home_team],
                                elos1[game.visitor_team],
                                <<elos3[game.home_team],
                                  elos3[game.visitor_team]>>)]
        update(elos1, home_expected) ==
            Let1([elos1 EXCEPT
                    ![game.home_team] =
                        @ + rating_change(k, mov, home_actual, home_expected)],
                 LAMBDA elos2 :
                    Let1([elos2 EXCEPT
                            ![game.visitor_team] =
                                @ + rating_change(k, mov, away_actual,
                                                  away(home_expected))],
                         LAMBDA elos3 : store(elos1, elos3)))
        run(elos1) ==
            Let1(expected_score(elos1[game.home_team],
                                elos1[game.visitor_team]),
                 LAMBDA home_expected : update(elos1, home_expected))
    IN  Let1(Touch(Touch(v.elos, game.home_team, InitialElo * RatingScale),
                   game.visitor_team, InitialElo * RatingScale), run)

RECURSIVE Vis_process_games(_, _, _, _, _, _)
Vis_process_games(st, games, i, offset, total, stage_name) ==
    IF i >= Len(games) THEN st
    ELSE
      LET k == FloorK(DecreasingK(2 * 40, 10, offset + i, total), 10)
          next(u) == [vis |-> u.vis, trace |-> Append(st.trace, u.entry)]
      IN  Let1(Let1(Vis_update(st.vis, games[i + 1], k, stage_name), next),
               LAMBDA st2 : Vis_process_games(st2, games, i + 1, offset, total,
                                              stage_name))

\* calculate_detailed_elo
calculate_detailed_elo(file) ==
    LET games == load_games(file)
        v0    == [elos |-> EmptyDict, elo_history |-> EmptyDict,
                  regular_season_elos |-> EmptyDict]
        regular_season_games == SelectSeq(games, IsRegular)
        playoff_games        == SelectSeq(games, IsPlayoff)
        regular == Vis_process_games([vis |-> v0, trace |-> <<>>],
                       regular_season_games, 0, 0, Len(regular_season_games),
                       "Regular Season")
        playoffs(st1) ==
            Vis_process_games(
                [st1 EXCEPT !.vis.regular_season_elos = st1.vis.elos],
                playoff_games, 0, Len(regular_season_games), Len(games),
                "Playoffs")
        return(st2) == [vis |-> st2.vis, trace |-> st2.trace, games |-> games]
    IN  Let1(regular, LAMBDA st1 : Let1(playoffs(st1), return))

(***************************************************************************)
(* app.py: the playoff series probability.  A per-game probability is the  *)
(* integer p standing for p/ProbDen; the value dp returns at current_game  *)
(* is an integer standing for value/Scale(current_game), so that sums and  *)
(* products are exact.                                                     *)
(***************************************************************************)
RECURSIVE IntPow(_, _)
IntPow(b, e) == IF e = 0 THEN 1 ELSE b * IntPow(b, e - 1)

\* the denominator of the value dp returns at current_game
Scale(current_game) == IntPow(ProbDen, Max(8 - current_game, 0))

higher_seed_home_games == {1, 2, 5, 7}

\* a faulty variant of a_at_home: the holder of home court is ignored
a_at_home_as_higher_seed(a_has_home_court, current_game) ==
    current_game \in higher_seed_home_games

\* "Determine if team A is playing at home in this specific game"
a_at_home(a_has_home_court, current_game) ==
    IF a_has_home_court
    THEN current_game \in higher_seed_home_games
    ELSE current_game \notin higher_seed_home_games

\* "Get probability for this specific game"
prob_a_this_game(prob_a_home, prob_a_away, a_has_home_court, current_game) ==
    IF a_at_home(a_has_home_court, current_game)
    THEN prob_a_home ELSE prob_a_away

\* a faulty variant of MemoKey: the memo is keyed by the game number alone
MemoKey_by_game(a_wins, b_wins, current_game) == <<current_game>>

\* the key of memo
MemoKey(a_wins, b_wins, current_game) == <<a_wins, b_wins, current_game>>

\* dp of calculate_series_probability_nba_format; args are the arguments of
\* the enclosing call, memo the dictionary when dp is entered.  Returns the
\* value, the dictionary when dp returns, and the calls of dp made: the
\* (a_wins, b_wins, current_game) of this call and of the calls below it.
RECURSIVE dp(_, _, _, _, _)
dp(args, memo, a_wins, b_wins, current_game) ==
    LET key  == MemoKey(a_wins, b_wins, current_game)
        this == {<<a_wins, b_wins, current_game>>}
        p    == prob_a_this_game(args.prob_a_home, args.prob_a_away,
                                 args.a_has_home_court, current_game)
        store(r1, r2, result) ==
            [value |-> result, memo |-> Put(r2.memo, key, result),
             calls |-> this \cup r1.calls \cup r2.calls]
        lose(r1) ==
            Let1(dp(args, r1.memo, a_wins, b_wins + 1, current_game + 1),
                 LAMBDA r2 :
                    Let1(p * r1.value + (ProbDen - p) * r2.value,
                         LAMBDA result : store(r1, r2, result)))
    IN  IF a_wins >= args.games_needed
        THEN [value |-> Scale(current_game), memo |-> memo, calls |-> this]
        ELSE IF b_wins >= args.games_needed
        THEN [value |-> 0, memo |-> memo, calls |-> this]
        ELSE IF current_game > 7
        THEN [value |-> 0, memo |-> memo, calls |-> this]
        ELSE IF key \in DOMAIN memo
        THEN [value |-> memo[key], memo |-> memo, calls |-> this]
        ELSE Let1(dp(args, memo, a_wins + 1, b_wins, current_game + 1), lose)

\* a faulty variant of next_game_number: the next game is counted twice
next_game_number_skipping(wins_a, wins_b) == wins_a + wins_b + 2

\* "Start from the next game to be played"
next_game_number(wins_a, wins_b) == wins_a + wins_b + 1

\* a faulty variant of series_decided: a side that has games_needed wins is
\* not seen as the winner, only one that has more
series_decided_late(wins, games_needed) == wins > games_needed

\* "if wins_a >= games_needed" and "if wins_b >= games_needed" at the start
\* of calculate_series_probability_nba_format
series_decided(wins, games_needed) == wins >= games_needed

\* calculate_series_probability_nba_format: the probability returned, as a
\* fraction [n, d], and the calls of dp made
series_probability_run(args) ==
    IF series_decided(args.wins_a, args.games_needed)
    THEN [result |-> [n |-> 1, d |-> 1], calls |-> {}]
    ELSE IF series_decided(args.wins_b, args.games_needed)
    THEN [result |-> [n |-> 0, d |-> 1], calls |-> {}]
    ELSE Let1(dp(args, EmptyDict, args.wins_a, args.wins_b,
                 next_game_number(args.wins_a, args.wins_b)),
              LAMBDA r :
                [result |-> [n |-> r.value,
                             d |-> Scale(next_game_number(args.wins_a,
                                                          args.wins_b))],
                 calls |-> r.calls])

\* calculate_series_probability_nba_format: the probability returned
calculate_series_probability_nba_format(args) ==
    series_probability_run(args).result

\* the games_needed a caller passes: the default 4, shorter and longer
\* series
GamesNeeded == 1..MaxGamesNeeded

\* a faulty variant of Breakdown_higher_seed_home_games: the 2-3-2 format
Breakdown_higher_seed_home_games_2_3_2 == {1, 2, 6, 7}

\* get_remaining_games_breakdown: its own higher_seed_home_games
Breakdown_higher_seed_home_games == {1, 2, 5, 7}

\* list(range(games_played + 1, 8))
remaining_games(games_played) ==
    [i \in 1..Max(7 - games_played, 0) |-> games_played + i]

\* the games of remaining the generator of a_remaining_home counts
counted_for_a(remaining, a_has_home_court) ==
    SelectSeq(remaining,
              LAMBDA game : IF a_has_home_court
                            THEN game \in Breakdown_higher_seed_home_games
                            ELSE game \notin Breakdown_higher_seed_home_games)

\* get_remaining_games_breakdown
get_remaining_games_breakdown(wins_a, wins_b, a_has_home_court) ==
    LET games_played == wins_a + wins_b
        remaining == remaining_games(games_played)
        a_remaining_home == Len(counted_for_a(remaining, a_has_home_court))
        a_remaining_away == Len(remaining) - a_remaining_home
    IN  [a_remaining_home |-> a_remaining_home,
         a_remaining_away |-> a_remaining_away,
         b_remaining_home |-> a_remaining_away,
         b_remaining_away |-> a_remaining_home,
         remaining_games  |-> remaining]

\* the arguments of a call of calculate_series_probability_nba_format
SeriesArgs ==
    [wins_a : 0..MaxWins, wins_b : 0..MaxWins,
     prob_a_home : 0..ProbDen, prob_a_away : 0..ProbDen,
     a_has_home_court : BOOLEAN, games_needed : GamesNeeded]

(***************************************************************************)
(* finals_series_probability.py and finals_adaptive_probability.py: the    *)
(* series probability of the Finals from Pacers 1, Thunder 0.  The two     *)
(* per-game probabilities, which the scripts compute from two Elo ratings, *)
(* are taken as given: thunder_home_prob and pacers_home_prob stand for    *)
(* p/ProbDen.                                                              *)
(***************************************************************************)
\* finals_series_probability.py: the venues of games 2..7
remaining_games_locations ==
    <<"thunder_home", "pacers_home", "pacers_home",
      "thunder_home", "thunder_home", "thunder_home">>

\* finals_adaptive_probability.py: the venues of games 2..7
Adaptive_remaining_games_locations ==
    <<"thunder_home", "pacers_home", "pacers_home",
      "thunder_home", "thunder_home", "thunder_home">>

\* the denominator of the value simulate_series_from_state returns at
\* game_index
FinalsScale(locations, game_index) ==
    IntPow(ProbDen, Max(Len(locations) - game_index, 0))

\* simulate_series_from_state: the value returned and the calls made, each
\* as (pacers_wins, thunder_wins, game_index)
RECURSIVE simulate_series_from_state(_, _, _, _, _)
simulate_series_from_state(locations, probs, pacers_wins, thunder_wins, game_index) ==
    LET this == {<<pacers_wins, thunder_wins, game_index>>}
        location == locations[game_index + 1]
        pacers_win_prob ==
            IF location = "thunder_home"
            THEN ProbDen - probs.thunder_home_prob
            ELSE probs.pacers_home_prob
        thunder_win_prob ==
            IF location = "thunder_home"
            THEN probs.thunder_home_prob
            ELSE ProbDen - probs.pacers_home_prob
        thunder(r1) ==
            Let1(simulate_series_from_state(locations, probs, pacers_wins,
                                            thunder_wins + 1, game_index + 1),
                 LAMBDA r2 :
                    [value |-> pacers_win_prob * r1.value
                               + thunder_win_prob * r2.value,
                     calls |-> this \cup r1.calls \cup r2.calls])
    IN  IF pacers_wins = 4
        THEN [value |-> FinalsScale(locations, game_index), calls |-> this]
        ELSE IF thunder_wins = 4
        THEN [value |-> 0, calls |-> this]
        ELSE IF game_index >= Len(locations)
        THEN [value |-> 0, calls |-> this]
        ELSE Let1(simulate_series_from_state(locations, probs,
                                             pacers_wins + 1, thunder_wins,
                                             game_index + 1), thunder)

\* a faulty variant of simulation_start: the series starts level, game 2
\* next
simulation_start_level == <<0, 0, 0>>

\* "Start simulation from current state: Pacers 1, Thunder 0, Game 2 next"
simulation_start == <<1, 0, 0>>

\* calculate_series_probability of either script: the two probabilities
\* returned, as fractions [n, d], and the calls of the simulation
calculate_series_probability(locations, probs) ==
    Let1(simulate_series_from_state(locations, probs, simulation_start[1],
                                    simulation_start[2], simulation_start[3]),
         LAMBDA r :
            [pacers  |-> [n |-> r.value,
                          d |-> FinalsScale(locations, simulation_start[3])],
             thunder |-> [n |-> FinalsScale(locations, simulation_start[3])
                                - r.value,
                          d |-> FinalsScale(locations, simulation_start[3])],
             calls   |-> r.calls])

\* the venue table of a Finals script
LocationsOf(script) ==
    IF script = "finals_series" THEN remaining_games_locations
    ELSE Adaptive_remaining_games_locations

\* the per-game probabilities a Finals script works with
FinalsProbs == [thunder_home_prob : 0..ProbDen, pacers_home_prob : 0..ProbDen]

(***************************************************************************)
(* app.py: the endpoints.  A value of request.json is a record: kind is    *)
(* "absent" for a key the request lacks, "null", "int" or "str", v the     *)
(* value of a number and s of a string.  An answer has the HTTP status and *)
(* the body handed to jsonify.                                             *)
(***************************************************************************)
Absent == [kind |-> "absent", v |-> 0, s |-> ""]
Null == [kind |-> "null", v |-> 0, s |-> ""]
Number(i) == [kind |-> "int", v |-> i, s |-> ""]
Str(t) == [kind |-> "str", v |-> 0, s |-> t]

\* data.get(key): None for a key the request lacks
Data_get(data, key) == IF data[key] = Absent THEN Null ELSE data[key]

\* data.get(key, default)
Data_get_default(data, key, default) ==
    IF data[key] = Absent THEN Number(default) ELSE data[key]

\* the truth value Python gives a value
Truthy(x) ==
    CASE x.kind = "int" -> x.v # 0
      [] x.kind = "str" -> x.s # ""
      [] OTHER -> FALSE

\* calculate_win_probability, as a fraction [n, d]
calculate_win_probability(elo_a, elo_b, home_advantage) ==
    expected_score(elo_a + home_advantage * RatingScale, elo_b)

\* a probability given as a fraction, to the nearest multiple of 1/ProbDen
\* (the probabilities of the series function are multiples of 1/ProbDen)
ProbOnGrid(f) == Quantize(ProbDen * f.n, f.d)

\* round(x * 100, 1) of a fraction x, in tenths of a percent
RoundPercent(f) == Quantize(1000 * f.n, f.d)

\* 1 - x
OneMinus(f) == [n |-> f.d - f.n, d |-> f.d]

\* a faulty variant of wins_invalid: a negative count passes
wins_invalid_above(wins_a, wins_b) == wins_a > 4 \/ wins_b > 4

\* "Invalid wins count (must be 0-4)"
wins_invalid(wins_a, wins_b) ==
    wins_a < 0 \/ wins_b < 0 \/ wins_a > 4 \/ wins_b > 4

\* "Series is already over"
series_over(wins_a, wins_b) == wins_a >= 4 \/ wins_b >= 4

Answer(status, body) == [status |-> status, body |-> body]

\* the body of the answer of series_probability to a valid request
series_probability_body(team_a, team_b, elo_a, elo_b, rank_a, rank_b, wins_a, wins_b) ==
    LET a_has_home_court == rank_a < rank_b
        higher_seed == IF a_has_home_court THEN team_a ELSE team_b
        lower_seed == IF a_has_home_court THEN team_b ELSE team_a
        prob_a_neutral == calculate_win_probability(elo_a, elo_b, 0)
        prob_a_home == calculate_win_probability(elo_a, elo_b, 40)
        prob_a_away == calculate_win_probability(elo_a, elo_b, -40)
        series_prob_a ==
            calculate_series_probability_nba_format(
                [wins_a |-> wins_a, wins_b |-> wins_b,
                 prob_a_home |-> ProbOnGrid(prob_a_home),
                 prob_a_away |-> ProbOnGrid(prob_a_away),
                 a_has_home_court |-> a_has_home_court,
                 games_needed |-> 4])
        remaining_breakdown ==
            get_remaining_games_breakdown(wins_a, wins_b, a_has_home_court)
    IN  [team_a |-> team_a, team_b |-> team_b,
         elo_a |-> elo_a, elo_b |-> elo_b,
         rank_a |-> rank_a, rank_b |-> rank_b,
         current_standing |-> <<wins_a, wins_b>>,
         wins_a |-> wins_a, wins_b |-> wins_b,
         higher_seed |-> higher_seed, lower_seed |-> lower_seed,
         home_court_advantage_team |-> higher_seed,
         neutral_prob_a |-> RoundPercent(prob_a_neutral),
         neutral_prob_b |-> RoundPercent(OneMinus(prob_a_neutral)),
         series_prob_a |-> RoundPercent(series_prob_a),
         series_prob_b |-> RoundPercent(OneMinus(series_prob_a)),
         remaining_games |-> remaining_breakdown.remaining_games,
         a_remaining_home |-> remaining_breakdown.a_remaining_home,
         a_remaining_away |-> remaining_breakdown.a_remaining_away,
         b_remaining_home |-> remaining_breakdown.b_remaining_home,
         b_remaining_away |-> remaining_breakdown.b_remaining_away,
         format_explanation |-> higher_seed]

\* series_probability: the answer to a request with the JSON body data.  A
\* null win count passes the first check and fails the comparison with 0
\* (TypeError), which the framework answers with status 500.
series_probability(data) ==
    LET team_a == Data_get(data, "team_a")
        team_b == Data_get(data, "team_b")
        elo_a == Data_get(data, "elo_a")
        elo_b == Data_get(data, "elo_b")
        rank_a == Data_get(data, "rank_a")
        rank_b == Data_get(data, "rank_b")
        wins_a == Data_get_default(data, "wins_a", 0)
        wins_b == Data_get_default(data, "wins_b", 0)
    IN  IF ~(\A x \in {team_a, team_b} : Truthy(x))
           \/ ~(\A x \in {elo_a, elo_b, rank_a, rank_b} : Truthy(x))
        THEN Answer(400, [error |-> "Missing required parameters"])
        ELSE IF wins_a.kind # "int" \/ wins_b.kind # "int"
        THEN Answer(500, [error |-> "TypeError"])
        ELSE IF wins_invalid(wins_a.v, wins_b.v)
        THEN Answer(400, [error |-> "Invalid wins count (must be 0-4)"])
        ELSE IF series_over(wins_a.v, wins_b.v)
        THEN Answer(400, [error |-> "Series is already over"])
        ELSE Answer(200, series_probability_body(
                             team_a.s, team_b.s, elo_a.v, elo_b.v,
                             rank_a.v, rank_b.v, wins_a.v, wins_b.v))

\* the requests made of series_probability
RequestElos == {0, 1500 * RatingScale, 1600 * RatingScale}
WinValues == {Absent, Null} \cup {Number(w) : w \in (-1)..MaxWins}
SeriesRequests ==
    [team_a : {Absent, Str("BOS")},
     team_b : {Absent, Str("LAL")},
     elo_a : {Absent} \cup {Number(e) : e \in RequestElos},
     elo_b : {Number(1500 * RatingScale)},
     rank_a : {Absent, Number(1), Number(2)},
     rank_b : {Number(1), Number(2)},
     wins_a : WinValues,
     wins_b : WinValues]

(***************************************************************************)
(* market_analysis_professional.py and betting_market_vs_models.py: the    *)
(* odds conversions.  A probability is an exact fraction [n, d], d > 0; a  *)
(* conversion answers its value, odds x as the fraction x/1, or that it    *)
(* raised ZeroDivisionError.                                               *)
(***************************************************************************)
Returned(v) == [raised |-> FALSE, value |-> v]
Raised == [raised |-> TRUE, value |-> [n |-> 0, d |-> 1]]

\* the integer i a conversion returns
ReturnedInt(i) == Returned([n |-> i, d |-> 1])

\* int(n / d): the quotient truncated toward zero (d # 0)
TruncDiv(n, d) ==
    IF (n < 0) = (d < 0) THEN Abs(n) \div Abs(d) ELSE -(Abs(n) \div Abs(d))

\* BettingOddsConverter.american_to_probability
american_to_probability(american_odds) ==
    IF american_odds > 0
    THEN Returned([n |-> 100, d |-> american_odds + 100])
    ELSE Returned([n |-> Abs(american_odds), d |-> Abs(american_odds) + 100])

\* betting_market_vs_models.py: odds_to_probability
Bmm_odds_to_probability(american_odds) ==
    IF american_odds > 0
    THEN Returned([n |-> 100, d |-> american_odds + 100])
    ELSE Returned([n |-> Abs(american_odds), d |-> Abs(american_odds) + 100])

\* int(-100 * prob / (1 - prob)) for prob >= 0.5, else
\* int(100 * (1 - prob) / prob)
to_american(prob) ==
    IF 2 * prob.n >= prob.d
    THEN IF prob.d - prob.n = 0 THEN Raised
         ELSE ReturnedInt(TruncDiv(-100 * prob.n, prob.d - prob.n))
    ELSE IF prob.n = 0 THEN Raised
         ELSE ReturnedInt(TruncDiv(100 * (prob.d - prob.n), prob.n))

\* BettingOddsConverter.probability_to_american: "Convert percentage to
\* decimal if needed"
probability_to_american(probability) ==
    IF probability.n > probability.d
    THEN to_american([n |-> probability.n, d |-> 100 * probability.d])
    ELSE to_american(probability)

\* betting_market_vs_models.py: probability_to_american_odds
probability_to_american_odds(prob) == to_american(prob)

\* BettingOddsConverter.decimal_to_american
decimal_to_american(decimal_odds) ==
    IF decimal_odds.n >= 2 * decimal_odds.d
    THEN ReturnedInt(TruncDiv((decimal_odds.n - decimal_odds.d) * 100,
                           decimal_odds.d))
    ELSE IF decimal_odds.n - decimal_odds.d = 0 THEN Raised
    ELSE ReturnedInt(TruncDiv(-100 * decimal_odds.d,
                           decimal_odds.n - decimal_odds.d))

\* the two modules that convert odds
Converters == {"market_analysis_professional", "betting_market_vs_models"}

ToProbability(impl, american_odds) ==
    IF impl = "market_analysis_professional"
    THEN american_to_probability(american_odds)
    ELSE Bmm_odds_to_probability(american_odds)

ToAmerican(impl, prob) ==
    IF impl = "market_analysis_professional"
    THEN probability_to_american(prob)
    ELSE probability_to_american_odds(prob)

\* the odds turned into a probability and back
round_trip(impl, american_odds) ==
    Let1(ToProbability(impl, american_odds),
         LAMBDA p : IF p.raised THEN Raised ELSE ToAmerican(impl, p.value))

\* the inputs of the conversions
AmericanOdds == {-300, -200, -150, -110, -100, 0, 100, 110, 150, 200, 300}
Probabilities == {[n |-> k, d |-> ProbSteps] : k \in (-1)..(ProbSteps + 1)}
DecimalOdds == {[n |-> k, d |-> 4] : k \in 0..12}

(***************************************************************************)
(* market_analysis_professional.py: FinalsAnalyzer.calculate_market_edge,  *)
(* over exact fractions kept in lowest terms with a positive denominator.  *)
(***************************************************************************)
RECURSIVE GCD(_, _)
GCD(a, b) == IF b = 0 THEN a ELSE GCD(b, a % b)

\* the fraction n/d (d # 0) in lowest terms
Frac(n, d) ==
    Let1(GCD(Abs(n), Abs(d)),
         LAMBDA g : IF d > 0 THEN [n |-> n \div g, d |-> d \div g]
                    ELSE [n |-> (-n) \div g, d |-> (-d) \div g])

FracOf(i) == [n |-> i, d |-> 1]
FracMul(a, b) == Frac(a.n * b.n, a.d * b.d)
FracSub(a, b) == Frac(a.n * b.d - b.n * a.d, a.d * b.d)
FracDiv(a, b) == Frac(a.n * b.d, a.d * b.n)
FracLess(a, b) == a.n * b.d < b.n * a.d
FracAbs(a) == [n |-> Abs(a.n), d |-> a.d]

\* a faulty variant of market_odds: the market probability taken as a
\* fraction of 1, not as a percentage
market_odds_of_fraction(market_prob) == Frac(1, market_prob)

\* market_odds = 1 / (market_prob / 100)
market_odds(market_prob) == Frac(100, market_prob)

\* a faulty variant of clamp_kelly: a negative Kelly fraction is kept
kelly_unclamped(kelly) == kelly

\* kelly = max(0, kelly): "Don't bet if Kelly is negative"
clamp_kelly(kelly) == IF kelly.n < 0 THEN FracOf(0) ELSE kelly

\* "Determine risk level"
risk_level(edge) ==
    IF FracLess(FracAbs(edge), Frac(5, 100)) THEN "Low Edge"
    ELSE IF FracLess(FracAbs(edge), Frac(15, 100)) THEN "Moderate Edge"
    ELSE "High Edge"

NoAnalysis ==
    [estimated_edge |-> FracOf(0), expected_value |-> FracOf(0),
     kelly_criterion |-> FracOf(0), risk_level |-> ""]

\* calculate_market_edge for percentages market_prob and true_prob: the
\* MarketAnalysis it returns, or the ZeroDivisionError of market_prob = 0
calculate_market_edge(market_prob, true_prob) ==
    IF market_prob = 0 THEN [raised |-> TRUE, analysis |-> NoAnalysis]
    ELSE LET edge == Frac(true_prob - market_prob, market_prob)
             odds == market_odds(market_prob)
             p == Frac(true_prob, 100)
             expected_value == FracSub(FracMul(p, odds), FracOf(1))
             b == FracSub(odds, FracOf(1))
             kelly ==
                 IF FracLess(FracOf(1), odds)
                 THEN clamp_kelly(
                          FracDiv(FracSub(FracMul(p, b),
                                          FracSub(FracOf(1), p)), b))
                 ELSE FracOf(0)
         IN  [raised |-> FALSE,
              analysis |-> [estimated_edge |-> edge,
                            expected_value |-> expected_value,
                            kelly_criterion |-> kelly,
                            risk_level |-> risk_level(edge)]]

\* the percentages calculate_market_edge is called with
Percentages == {10 * k : k \in 0..MaxPercentStep}

(***************************************************************************)
(* State.                                                                  *)
(***************************************************************************)
VARIABLES
    prog,   \* which program of the repository is running
    calls,  \* operations performed so far
    calc,   \* app.py: the EloCalculator objects, by instance
    heap,   \* app.py: the dictionaries the calculators' attributes refer to
    enh,    \* enhanced_elo_calculator.py: the EnhancedEloCalculator object
    nba,    \* nba_elo_calculator.py: the EloCalculator object of main
    vis,    \* elo_visualizer.py: elos and elo_history of calculate_detailed_elo
    series, \* app.py: a call of calculate_series_probability_nba_format
    applied,\* app.py: the update_elo calls made on each calculator so far
    finals, \* a run of calculate_series_probability of a Finals script
    kcall,  \* a call of a K-factor function
    response, \* app.py: the answer of an endpoint to a request
    market, \* a call of an odds conversion or of calculate_market_edge
    last    \* the last operation: its arguments, locals and return value

vars == <<prog, calls, calc, heap, enh, nba, vis, series, applied, finals,
          kcall, response, market, last>>

\* the state of the scripts, of the K-factor calls, of the endpoints and of
\* the market analysis
scripts == <<finals, kcall, response, market>>

NoCall == [op |-> "none", raised |-> FALSE, trace |-> <<>>]

(***************************************************************************)
(* app.py: EloCalculator.                                                  *)
(***************************************************************************)
\* the k_factor_type and k_factor_value each calculator is constructed with
KFactorConfig ==
    [i \in Instances |->
        IF i = 1 THEN [type |-> "fixed", value |-> DefaultK]
                 ELSE [type |-> "decreasing", value |-> DefaultK]]

\* a faulty variant of NewDict: every constructor call gets the same three
\* dictionaries (a shared mutable default)
NewDict_shared(i, n) == n

\* the address of the n-th dictionary created by the i-th constructor call
NewDict(i, n) == 3 * (i - 1) + n

Addrs == {NewDict(i, n) : i \in Instances, n \in 1..3}

\* EloCalculator.__init__: three fresh dictionaries per object
EloCalculator_init(i) ==
    [initial_elo    |-> InitialElo * RatingScale,
     k_factor_type  |-> KFactorConfig[i].type,
     k_factor_value |-> KFactorConfig[i].value,
     team_elos      |-> NewDict(i, 1),
     team_records   |-> NewDict(i, 2),
     game_count     |-> 0,
     elo_history    |-> NewDict(i, 3)]

\* EloCalculator.get_k_factor: the K-factor as a fraction, or the
\* ZeroDivisionError of game_number / total_games
get_k_factor(c, game_number, total_games) ==
    IF c.k_factor_type = "fixed"
    THEN [raised |-> FALSE, k |-> [n |-> c.k_factor_value, d |-> 1]]
    ELSE IF c.k_factor_type = "decreasing"
    THEN IF total_games = 0
         THEN [raised |-> TRUE, k |-> [n |-> 0, d |-> 1]]
         ELSE [raised |-> FALSE,
               k |-> [n |-> 40 * total_games - 30 * game_number,
                      d |-> total_games]]
    ELSE [raised |-> FALSE, k |-> [n |-> 20, d |-> 1]]

NoRecord == [wins |-> 0, losses |-> 0]

\* self.team_records[team]['wins'] += 1
AddWin(records, team) ==
    LET r == Touch(records, team, NoRecord)
    IN  [r EXCEPT ![team].wins = @ + 1]

\* a faulty variant of AddLoss: the loss is not counted
AddLoss_dropped(records, team) == Touch(records, team, NoRecord)

\* self.team_records[team]['losses'] += 1
AddLoss(records, team) ==
    LET r == Touch(records, team, NoRecord)
    IN  [r EXCEPT ![team].losses = @ + 1]

\* EloCalculator.update_elo, statement by statement: the heap it leaves,
\* whether it raised, the ratings it read and the ratings it returns.
update_elo(h, c, team_a, team_b, score_a, score_b, game_number, total_games) ==
    LET a_won     == score_a > score_b
        actual_a  == IF a_won THEN 1 ELSE 0
        actual_b  == IF a_won THEN 0 ELSE 1
        records1  == IF a_won
                     THEN AddLoss(AddWin(h[c.team_records], team_a), team_b)
                     ELSE AddLoss(AddWin(h[c.team_records], team_b), team_a)
        score_diff == Abs(score_a - score_b)
        mov        == mov_multiplier(score_diff)
        kf         == get_k_factor(c, game_number, total_games)
        write(elos1, new) ==
            [heap |-> [h EXCEPT
                 ![c.team_elos] =
                     Put(Put(elos1, team_a, new[1]), team_b, new[2]),
                 ![c.team_records] = records1,
                 ![c.elo_history] =
                     Append_history(
                         Append_history(@, team_a,
                             [game |-> game_number, elo |-> new[1]]),
                         team_b, [game |-> game_number, elo |-> new[2]])],
             raised |-> FALSE,
             trace |-> <<Entry(team_a, team_b, score_a, score_b, kf.k,
                               elos1[team_a], elos1[team_b], new)>>]
        run(elos1) ==
            IF kf.raised
            THEN [heap |-> [h EXCEPT ![c.team_elos] = elos1,
                                     ![c.team_records] = records1],
                  raised |-> TRUE, trace |-> <<>>]
            ELSE Let1(new_ratings(elos1[team_a], elos1[team_b],
                                  actual_a, actual_b, mov, kf.k),
                      LAMBDA new : write(elos1, new))
    IN  Let1(Touch(Touch(h[c.team_elos], team_a, c.initial_elo),
                   team_b, c.initial_elo), run)

\* the (game_number, total_games) a caller passes
GameNumbers == {<<g, t>> \in (1..TotalGames) \X {0, TotalGames} : g <= Max(t, 1)}

\* a call of update_elo on calculator i
AppUpdateElo(i, team_a, team_b, scores, gt) ==
    /\ prog = "app"
    /\ calls < MaxCalls
    /\ \E r \in {update_elo(heap, calc[i], team_a, team_b,
                              scores[1], scores[2], gt[1], gt[2])} :
           /\ heap' = r.heap
           /\ last' = [op |-> "update_elo", target |-> i,
                       team_a |-> team_a, team_b |-> team_b,
                       score_a |-> scores[1], score_b |-> scores[2],
                       game_number |-> gt[1], total_games |-> gt[2],
                       raised |-> r.raised, trace |-> r.trace]
    /\ calls' = calls + 1
    /\ applied' = [applied EXCEPT ![i] =
                      Append(@, [team_a |-> team_a, team_b |-> team_b,
                                 score_a |-> scores[1], score_b |-> scores[2]])]
    /\ UNCHANGED <<scripts, prog, calc, enh, nba, vis, series>>

\* the k_factor a caller of EnhancedEloCalculator.update_elo passes
KFactors == {[n |-> 20, d |-> 1], [n |-> 65, d |-> 2]}

\* a call of initialize_season
EnhInitializeSeason(season_id) ==
    /\ prog = "enhanced"
    /\ calls < MaxCalls
    /\ enh' = initialize_season(enh, season_id)
    /\ last' = [op |-> "initialize_season", target |-> season_id,
                raised |-> FALSE, trace |-> <<>>]
    /\ calls' = calls + 1
    /\ UNCHANGED <<scripts, prog, calc, heap, nba, vis, series, applied>>

\* a call of get_season_data, get_season_rankings or format_season_display
EnhReadSeason(reader, season_id) ==
    /\ prog = "enhanced"
    /\ calls < MaxCalls
    /\ \E r \in {ReadSeason(reader, enh, season_id)} :
           /\ enh' = r.enh
           /\ last' = [op |-> reader, target |-> season_id,
                       raised |-> r.raised, trace |-> <<>>]
    /\ calls' = calls + 1
    /\ UNCHANGED <<scripts, prog, calc, heap, nba, vis, series, applied>>

\* a call of EnhancedEloCalculator.update_elo
EnhUpdateElo(team_a, team_b, scores, k_factor, season_id) ==
    /\ prog = "enhanced"
    /\ calls < MaxCalls
    /\ \E r \in {Enh_update_elo(enh, team_a, team_b, scores[1], scores[2],
                                  k_factor, season_id)} :
           /\ enh' = r.enh
           /\ last' = [op |-> "update_elo", target |-> r.key,
                       team_a |-> team_a, team_b |-> team_b,
                       score_a |-> scores[1], score_b |-> scores[2],
                       season_id |-> season_id,
                       raised |-> r.raised, trace |-> r.trace]
    /\ calls' = calls + 1
    /\ UNCHANGED <<scripts, prog, calc, heap, nba, vis, series, applied>>

\* a run of process_season on the new calculator, as main does
EnhProcessSeason(season_id, file) ==
    /\ prog = "enhanced"
    /\ calls = 0
    /\ \E r \in {process_season(enh, season_id, file)} :
           /\ enh' = r.enh
           /\ last' = [op |-> "process_season", target |-> r.key,
                       season_id |-> season_id, games |-> r.games,
                       result |-> r.result,
                       raised |-> FALSE, trace |-> r.trace]
    /\ calls' = MaxCalls
    /\ UNCHANGED <<scripts, prog, calc, heap, nba, vis, series, applied>>

\* a run of nba_elo_calculator.py
NbaMain(file) ==
    /\ prog = "nba"
    /\ calls = 0
    /\ \E r \in {Nba_main(file)} :
           /\ nba' = r.calc
           /\ last' = [op |-> "main", games |-> r.games,
                       raised |-> FALSE, trace |-> r.trace]
    /\ calls' = MaxCalls
    /\ UNCHANGED <<scripts, prog, calc, heap, enh, vis, series, applied>>

\* a run of calculate_detailed_elo
VisCalculateDetailedElo(file) ==
    /\ prog = "visualizer"
    /\ calls = 0
    /\ \E r \in {calculate_detailed_elo(file)} :
           /\ vis' = r.vis
           /\ last' = [op |-> "calculate_detailed_elo", games |-> r.games,
                       raised |-> FALSE, trace |-> r.trace]
    /\ calls' = MaxCalls
    /\ UNCHANGED <<scripts, prog, calc, heap, enh, nba, series, applied>>

Programs == {"app", "enhanced", "nba", "visualizer"}

\* no call of the series function
NoSeries == [called |-> FALSE, broken_down |-> FALSE]

\* no run of a Finals script, no K-factor call, no request
NoFinals == [called |-> FALSE]
NoKCall == [called |-> FALSE]
NoResponse == [endpoint |-> "none"]

\* no call of the market analysis
NoMarket == [called |-> FALSE]

\* the objects as their constructors leave them
NewObjects ==
    /\ calls = 0
    /\ calc = [i \in Instances |-> EloCalculator_init(i)]
    /\ heap = [a \in Addrs |-> EmptyDict]
    /\ nba = Nba_EloCalculator_init
    /\ vis = [elos |-> EmptyDict, elo_history |-> EmptyDict,
              regular_season_elos |-> EmptyDict]
    /\ applied = [i \in Instances |-> <<>>]
    /\ last = NoCall

Init ==
    /\ prog \in Programs
    /\ NewObjects
    /\ enh \in {EnhancedEloCalculator_init(cur) :
                  cur \in IF prog = "enhanced" THEN {None, "2023-24"}
                                               ELSE {None}}
    /\ series = NoSeries
    /\ finals = NoFinals
    /\ kcall = NoKCall
    /\ response = NoResponse
    /\ market = NoMarket

\* the files a program may be run on: a program is run once, on a new
\* calculator
InputFiles == IF calls = 0 THEN Files ELSE {}

Next ==
    \/ \E i \in Instances, m \in Matchups,
          scores \in ScorePairs, gt \in GameNumbers :
          AppUpdateElo(i, m[1], m[2], scores, gt)
    \/ \E season_id \in Seasons \cup {None} : EnhInitializeSeason(season_id)
    \/ \E reader \in Readers, season_id \in Seasons \cup {None} :
          EnhReadSeason(reader, season_id)
    \/ \E m \in Matchups, scores \in ScorePairs, k_factor \in KFactors,
          season_id \in Seasons \cup {None} :
          EnhUpdateElo(m[1], m[2], scores, k_factor, season_id)
    \/ \E season_id \in Seasons \cup {None}, file \in InputFiles :
          EnhProcessSeason(season_id, file)
    \/ \E file \in InputFiles : NbaMain(file)
    \/ \E file \in InputFiles : VisCalculateDetailedElo(file)

Spec == Init /\ [][Next]_vars

(***************************************************************************)
(* update_elo in mid-season: the calculators hold pre-game ratings of BOS  *)
(* and LAL drawn from a grid around the initial rating, and one more game  *)
(* is applied.                                                             *)
(***************************************************************************)
\* the step of the grid of pre-game ratings, in rating points
RatingStep == 150

PreGameRatings ==
    {(InitialElo + RatingStep * j) * RatingScale :
        j \in (-MaxRatingSteps)..MaxRatingSteps}

PreGameElos(rating_a, rating_b) ==
    Put(Put(EmptyDict, "BOS", rating_a), "LAL", rating_b)

\* a call of nba_elo_calculator.py's EloCalculator.update_elo
NbaUpdateElo(team_a, team_b, scores, k_factor) ==
    /\ prog = "nba"
    /\ calls < MaxCalls
    /\ \E r \in {Nba_update_elo(nba, team_a, team_b, scores[1], scores[2],
                                  k_factor)} :
           /\ nba' = r.calc
           /\ last' = [op |-> "update_elo", target |-> 0,
                       team_a |-> team_a, team_b |-> team_b,
                       score_a |-> scores[1], score_b |-> scores[2],
                       raised |-> FALSE, trace |-> <<r.entry>>]
    /\ calls' = calls + 1
    /\ UNCHANGED <<scripts, prog, calc, heap, enh, vis, series, applied>>

InitRatings ==
    /\ prog \in {"app", "nba"}
    /\ calls = MaxCalls - 1
    /\ calc = [i \in Instances |-> EloCalculator_init(i)]
    /\ \E rating_a \in PreGameRatings, rating_b \in PreGameRatings :
           /\ heap = [a \in Addrs |->
                         IF prog = "app"
                              /\ \E i \in Instances : a = calc[i].team_elos
                         THEN PreGameElos(rating_a, rating_b) ELSE EmptyDict]
           /\ nba = [Nba_EloCalculator_init EXCEPT
                        !.team_elos = IF prog = "nba"
                                      THEN PreGameElos(rating_a, rating_b)
                                      ELSE EmptyDict]
    /\ vis = [elos |-> EmptyDict, elo_history |-> EmptyDict,
              regular_season_elos |-> EmptyDict]
    /\ applied = [i \in Instances |-> <<>>]
    /\ last = NoCall
    /\ enh = EnhancedEloCalculator_init(None)
    /\ series = NoSeries
    /\ finals = NoFinals
    /\ kcall = NoKCall
    /\ response = NoResponse
    /\ market = NoMarket

NextRatings ==
    \/ \E i \in Instances, m \in Matchups,
          scores \in ScorePairs, gt \in GameNumbers :
          AppUpdateElo(i, m[1], m[2], scores, gt)
    \/ \E m \in Matchups, scores \in ScorePairs, k_factor \in KFactors :
          NbaUpdateElo(m[1], m[2], scores, k_factor)

SpecRatings == InitRatings /\ [][NextRatings]_vars

(***************************************************************************)
(* nba_elo_calculator.py run on a season's file: up to MaxScheduleLen      *)
(* finished games in date order, each of the regular season, the playoffs  *)
(* or a later stage.                                                       *)
(***************************************************************************)
ScheduleFiles ==
    UNION {{[i \in 1..n |->
                RawGame(i, [finished |-> TRUE, date |-> 1, stage |-> f[i]])] :
            f \in [1..n -> {2, 3, 4}]} : n \in 0..MaxScheduleLen}

InitNbaSeason ==
    /\ prog = "nba"
    /\ NewObjects
    /\ enh = EnhancedEloCalculator_init(None)
    /\ series = NoSeries
    /\ finals = NoFinals
    /\ kcall = NoKCall
    /\ response = NoResponse
    /\ market = NoMarket

NextNbaSeason == \E file \in ScheduleFiles : NbaMain(file)

SpecNbaSeason == InitNbaSeason /\ [][NextNbaSeason]_vars

(***************************************************************************)
(* The series function on its own: the arguments are drawn at the start,   *)
(* the one step applies the function to them.                              *)
(***************************************************************************)
SeriesProbability ==
    /\ prog = "series"
    /\ ~series.called
    /\ \E r \in {series_probability_run(series.args)} :
           series' = [series EXCEPT !.called = TRUE,
                                    !.result = r.result,
                                    !.calls = r.calls]
    /\ UNCHANGED <<scripts, prog, calls, calc, heap, enh, nba, vis, applied,
                   last>>

\* a call of get_remaining_games_breakdown for the state of the series
RemainingGamesBreakdown ==
    /\ prog = "series"
    /\ ~series.broken_down
    /\ series' = [series EXCEPT
                      !.broken_down = TRUE,
                      !.breakdown = get_remaining_games_breakdown(
                                        series.args.wins_a, series.args.wins_b,
                                        series.args.a_has_home_court)]
    /\ UNCHANGED <<scripts, prog, calls, calc, heap, enh, nba, vis, applied,
                   last>>

\* a run of a Finals script
FinalsSeriesProbability ==
    /\ prog \in {"finals_series", "finals_adaptive"}
    /\ ~finals.called
    /\ \E r \in {calculate_series_probability(LocationsOf(prog),
                                               finals.probs)} :
           finals' = [finals EXCEPT !.called = TRUE,
                                    !.pacers = r.pacers,
                                    !.thunder = r.thunder,
                                    !.calls = r.calls]
    /\ UNCHANGED <<prog, calls, calc, heap, enh, nba, vis, series, applied,
                   kcall, response, market, last>>

InitSeries ==
    /\ prog \in {"series", "finals_series", "finals_adaptive"}
    /\ NewObjects
    /\ enh = EnhancedEloCalculator_init(None)
    /\ IF prog = "series"
       THEN /\ series \in {[called |-> FALSE, args |-> a,
                             result |-> [n |-> 0, d |-> 1], calls |-> {},
                             broken_down |-> FALSE,
                             breakdown |-> get_remaining_games_breakdown(
                                               7, 0, TRUE)] :
                            a \in SeriesArgs}
            /\ finals = NoFinals
       ELSE /\ series = NoSeries
            /\ finals \in {[called |-> FALSE, probs |-> q,
                             pacers |-> [n |-> 0, d |-> 1],
                             thunder |-> [n |-> 0, d |-> 1], calls |-> {}] :
                            q \in FinalsProbs}
    /\ kcall = NoKCall
    /\ response = NoResponse
    /\ market = NoMarket

(***************************************************************************)
(* app.py: the endpoints that compute ratings from a season's game file.   *)
(***************************************************************************)
\* the game file of the season a request names: missing, or its contents
SeasonFiles ==
    {[exists |-> FALSE, response |-> <<>>]}
        \cup {[exists |-> TRUE, response |-> f] : f \in Files}

\* load_games_data with its handler of FileNotFoundError: "return []"
load_games_data_or_empty(season_file) ==
    IF season_file.exists THEN load_games_data(season_file.response)
    ELSE <<>>

\* game['date'].year: the dates of the model from 2 on are in 2025
YearOf(date) == 2024 + (date \div 2)

\* get_team_conferences().get(team, 'Unknown')
ConferenceOf(team) ==
    CASE team = "BOS" -> "Eastern"
      [] team = "NYK" -> "Eastern"
      [] team = "LAL" -> "Western"
      [] OTHER -> "Unknown"

\* for i, game in enumerate(games, 1): calculator.update_elo(..., i,
\* len(games)), from game i on: the heap left and whether a call raised
RECURSIVE App_process_games(_, _, _, _)
App_process_games(h, c, games, i) ==
    IF i > Len(games) THEN [heap |-> h, raised |-> FALSE]
    ELSE Let1(update_elo(h, c, games[i].home_team, games[i].visitor_team,
                         games[i].home_score, games[i].visitor_score,
                         i, Len(games)),
              LAMBDA r : IF r.raised THEN [heap |-> r.heap, raised |-> TRUE]
                         ELSE App_process_games(r.heap, c, games, i + 1))

\* calculator.team_elos[team]: a defaultdict answers initial_elo for a team
\* it does not hold
Elo_of(h, c, team) == Touch(h[c.team_elos], team, c.initial_elo)[team]

\* round(elo, 1), in tenths of a rating point
RoundElo(elo) == Quantize(10 * elo, RatingScale)

RECURSIVE SumOf(_)
SumOf(S) == IF S = {} THEN 0
            ELSE LET x == CHOOSE y \in S : TRUE
                 IN  x.elo + SumOf(S \ {x})

\* the results and the stats of calculate_elo (the order of the results,
\* by falling elo, is left out)
calculate_elo_results(h, c, total_games) ==
    LET results == {[team |-> team,
                     elo |-> RoundElo(h[c.team_elos][team]),
                     wins |-> h[c.team_records][team].wins,
                     losses |-> h[c.team_records][team].losses,
                     conference |-> ConferenceOf(team)] :
                    team \in DOMAIN h[c.team_elos]}
        elos == {r.elo : r \in results}
        highest == CHOOSE e \in elos : \A f \in elos : f <= e
        lowest == CHOOSE e \in elos : \A f \in elos : e <= f
    IN  [success |-> TRUE,
         results |-> results,
         stats |-> [total_games |-> total_games,
                    highest_elo |-> highest,
                    lowest_elo |-> lowest,
                    average_elo |-> Quantize(SumOf(results),
                                             Cardinality(results)),
                    elo_range |-> highest - lowest]]

\* calculate_elo: POST /api/calculate.  i is the calculator built for the
\* k_factor_type of the request.
calculate_elo(h, i, date_filter, season_file) ==
    LET all_games == load_games_data_or_empty(season_file)
        filtered_games ==
            IF date_filter = "2025_only"
            THEN SelectSeq(all_games, LAMBDA game : YearOf(game.date) = 2025)
            ELSE all_games
        done(r) ==
            IF r.raised THEN Answer(500, [error |-> "ZeroDivisionError"])
            ELSE Answer(200, calculate_elo_results(r.heap, calc[i],
                                                   Len(filtered_games)))
    IN  IF all_games = <<>>
        THEN Answer(400,
                 [error |-> "No game data available for selected season"])
        ELSE IF filtered_games = <<>>
        THEN Answer(400, [error |-> "No games found for selected period"])
        ELSE Let1(App_process_games(h, calc[i], filtered_games, 1), done)

\* the three pairs of probabilities win_probability answers
win_probability_body(team_a, team_b, elo_a, elo_b) ==
    LET pair(p) == [team_a_prob |-> RoundPercent(p),
                    team_b_prob |-> RoundPercent(OneMinus(p))]
    IN  [success |-> TRUE, team_a |-> team_a, team_b |-> team_b,
         elo_a |-> RoundElo(elo_a), elo_b |-> RoundElo(elo_b),
         neutral_site |-> pair(calculate_win_probability(elo_a, elo_b, 0)),
         team_a_home |-> pair(calculate_win_probability(elo_a, elo_b, 65)),
         team_b_home |-> pair(calculate_win_probability(elo_a, elo_b, -65))]

\* win_probability: POST /api/win_probability, with EloCalculator()
win_probability(h, team_a, team_b, season_file) ==
    LET all_games == load_games_data_or_empty(season_file)
        done(r) ==
            IF r.raised THEN Answer(500, [error |-> "ZeroDivisionError"])
            ELSE Answer(200, win_probability_body(
                                 team_a, team_b,
                                 Elo_of(r.heap, calc[1], team_a),
                                 Elo_of(r.heap, calc[1], team_b)))
    IN  IF all_games = <<>>
        THEN Answer(400, [error |-> "No game data available"])
        ELSE Let1(App_process_games(h, calc[1], all_games, 1), done)

\* BettingOddsConverter.odds_to_probability, as a fraction: 100/(odds+100)
\* for positive odds, |odds|/(|odds|+100) otherwise
odds_to_probability(american_odds) ==
    IF american_odds > 0
    THEN [n |-> 100, d |-> american_odds + 100]
    ELSE [n |-> Abs(american_odds), d |-> Abs(american_odds) + 100]

\* the body betting_analysis answers: elo_prob_a is 100 times the
\* probability e; the estimates handed to the analyzer stand for its report
betting_analysis_body(market_prob_a, e) ==
    [success |-> TRUE,
     market_probability |-> Quantize(10 * market_prob_a.n, market_prob_a.d),
     elo_probability |-> RoundPercent(e),
     analysis |-> <<[model_type |-> "BETTING_MARKET",
                     team_a_probability |-> market_prob_a],
                    [model_type |-> "ELO_ADAPTIVE",
                     team_a_probability |-> [n |-> 100 * e.n, d |-> e.d]]>>,
     edge_detected |->
         Abs(market_prob_a.n * e.d - 100 * e.n * market_prob_a.d)
             > 5 * market_prob_a.d * e.d]

\* betting_analysis: POST /api/betting_analysis, with EloCalculator()
betting_analysis(h, team_a, team_b, market_odds_a, season_file) ==
    LET all_games == load_games_data_or_empty(season_file)
        done(r) ==
            IF r.raised THEN Answer(500, [error |-> "ZeroDivisionError"])
            ELSE Answer(200, betting_analysis_body(
                                 odds_to_probability(market_odds_a),
                                 calculate_win_probability(
                                     Elo_of(r.heap, calc[1], team_a),
                                     Elo_of(r.heap, calc[1], team_b), 0)))
    IN  Let1(App_process_games(h, calc[1], all_games, 1), done)

\* the American odds a request quotes
MarketOdds == {-150, 150}

(***************************************************************************)
(* The endpoints of app.py.  An endpoint keeps nothing from one request to *)
(* the next, so a behaviour is one request and its answer.                 *)
(***************************************************************************)
\* POST /api/series_probability
SeriesProbabilityRequest ==
    /\ prog = "api"
    /\ response = NoResponse
    /\ \E data \in SeriesRequests :
           \E r \in {series_probability(data)} :
              response' = [endpoint |-> "series_probability",
                           request |-> data,
                           status |-> r.status, body |-> r.body]
    /\ UNCHANGED <<prog, calls, calc, heap, enh, nba, vis, series, applied,
                   finals, kcall, market, last>>

\* POST /api/calculate
CalculateEloRequest ==
    /\ prog = "api"
    /\ response = NoResponse
    /\ \E i \in Instances, date_filter \in {"full_season", "2025_only"},
          season_file \in SeasonFiles :
           \E r \in {calculate_elo(heap, i, date_filter, season_file)} :
              response' = [endpoint |-> "calculate_elo",
                           request |-> [k_factor_type |->
                                            calc[i].k_factor_type,
                                        date_filter |-> date_filter,
                                        season_file |-> season_file],
                           status |-> r.status, body |-> r.body]
    /\ UNCHANGED <<prog, calls, calc, heap, enh, nba, vis, series, applied,
                   finals, kcall, market, last>>

\* POST /api/win_probability
WinProbabilityRequest ==
    /\ prog = "api"
    /\ response = NoResponse
    /\ \E team_a \in Teams, team_b \in Teams, season_file \in SeasonFiles :
           \E r \in {win_probability(heap, team_a, team_b, season_file)} :
              response' = [endpoint |-> "win_probability",
                           request |-> [team_a |-> team_a, team_b |-> team_b,
                                        season_file |-> season_file],
                           status |-> r.status, body |-> r.body]
    /\ UNCHANGED <<prog, calls, calc, heap, enh, nba, vis, series, applied,
                   finals, kcall, market, last>>

\* POST /api/betting_analysis
BettingAnalysisRequest ==
    /\ prog = "api"
    /\ response = NoResponse
    /\ \E team_a \in Teams, team_b \in Teams, market_odds_a \in MarketOdds,
          season_file \in SeasonFiles :
           \E r \in {betting_analysis(heap, team_a, team_b, market_odds_a,
                                      season_file)} :
              response' = [endpoint |-> "betting_analysis",
                           request |-> [team_a |-> team_a, team_b |-> team_b,
                                        market_odds_a |-> market_odds_a,
                                        season_file |-> season_file],
                           status |-> r.status, body |-> r.body]
    /\ UNCHANGED <<prog, calls, calc, heap, enh, nba, vis, series, applied,
                   finals, kcall, market, last>>

InitApi ==
    /\ prog = "api"
    /\ NewObjects
    /\ enh = EnhancedEloCalculator_init(None)
    /\ series = NoSeries
    /\ finals = NoFinals
    /\ kcall = NoKCall
    /\ response = NoResponse
    /\ market = NoMarket

NextApi ==
    \/ SeriesProbabilityRequest
    \/ CalculateEloRequest
    \/ WinProbabilityRequest
    \/ BettingAnalysisRequest

SpecApi == InitApi /\ [][NextApi]_vars

(***************************************************************************)
(* The K-factor functions of the three calculators, each called once with  *)
(* a game_number and a total_games.                                        *)
(***************************************************************************)
\* nba_elo_calculator.py: EloCalculator.calculate_k_factor
NbaCalculateKFactor(game_number, total_games) ==
    /\ prog = "kfactor"
    /\ ~kcall.called
    /\ \E r \in {Nba_calculate_k_factor(nba, game_number, total_games)} :
           kcall' = [called |-> TRUE, impl |-> "nba", type |-> "decreasing",
                     game_number |-> game_number,
                     total_games |-> total_games, is_playoffs |-> FALSE,
                     raised |-> r.raised, k |-> r.k]
    /\ UNCHANGED <<prog, calls, calc, heap, enh, nba, vis, series, applied,
                   finals, response, market, last>>

\* enhanced_elo_calculator.py: EnhancedEloCalculator.calculate_k_factor
EnhCalculateKFactor(game_number, total_games, is_playoffs) ==
    /\ prog = "kfactor"
    /\ ~kcall.called
    /\ kcall' = [called |-> TRUE, impl |-> "enhanced", type |-> "decreasing",
                 game_number |-> game_number, total_games |-> total_games,
                 is_playoffs |-> is_playoffs, raised |-> FALSE,
                 k |-> Enh_calculate_k_factor(enh, game_number, total_games,
                                              is_playoffs)]
    /\ UNCHANGED <<prog, calls, calc, heap, enh, nba, vis, series, applied,
                   finals, response, market, last>>

\* app.py: EloCalculator.get_k_factor of calculator i
AppGetKFactor(i, game_number, total_games) ==
    /\ prog = "kfactor"
    /\ ~kcall.called
    /\ \E r \in {get_k_factor(calc[i], game_number, total_games)} :
           kcall' = [called |-> TRUE, impl |-> "app",
                     type |-> calc[i].k_factor_type,
                     game_number |-> game_number,
                     total_games |-> total_games, is_playoffs |-> FALSE,
                     raised |-> r.raised, k |-> r.k]
    /\ UNCHANGED <<prog, calls, calc, heap, enh, nba, vis, series, applied,
                   finals, response, market, last>>

InitKFactor ==
    /\ prog = "kfactor"
    /\ NewObjects
    /\ enh = EnhancedEloCalculator_init(None)
    /\ series = NoSeries
    /\ finals = NoFinals
    /\ kcall = NoKCall
    /\ response = NoResponse
    /\ market = NoMarket

NextKFactor ==
    \E game_number \in 0..MaxSeasonGames, total_games \in 0..MaxSeasonGames :
        \/ NbaCalculateKFactor(game_number, total_games)
        \/ \E is_playoffs \in BOOLEAN :
              EnhCalculateKFactor(game_number, total_games, is_playoffs)
        \/ \E i \in Instances : AppGetKFactor(i, game_number, total_games)

SpecKFactor == InitKFactor /\ [][NextKFactor]_vars

(***************************************************************************)
(* The odds conversions and the market analysis, each called once.         *)
(***************************************************************************)
\* what a call did: the operation, the module, the input (odds x as the
\* fraction x/1) and the outcome
MarketRecord(op, impl, input, r) ==
    [called |-> TRUE, op |-> op, impl |-> impl, input |-> input,
     true_prob |-> 0, raised |-> r.raised, value |-> r.value,
     analysis |-> NoAnalysis]

AmericanToProbability(impl, american_odds) ==
    /\ prog = "market"
    /\ ~market.called
    /\ market' = MarketRecord("american_to_probability", impl,
                              [n |-> american_odds, d |-> 1],
                              ToProbability(impl, american_odds))
    /\ UNCHANGED <<prog, calls, calc, heap, enh, nba, vis, series, applied,
                   finals, kcall, response, last>>

ProbabilityToAmerican(impl, prob) ==
    /\ prog = "market"
    /\ ~market.called
    /\ market' = MarketRecord("probability_to_american", impl, prob,
                              ToAmerican(impl, prob))
    /\ UNCHANGED <<prog, calls, calc, heap, enh, nba, vis, series, applied,
                   finals, kcall, response, last>>

DecimalToAmerican(decimal_odds) ==
    /\ prog = "market"
    /\ ~market.called
    /\ market' = MarketRecord("decimal_to_american",
                              "market_analysis_professional", decimal_odds,
                              decimal_to_american(decimal_odds))
    /\ UNCHANGED <<prog, calls, calc, heap, enh, nba, vis, series, applied,
                   finals, kcall, response, last>>

OddsRoundTrip(impl, american_odds) ==
    /\ prog = "market"
    /\ ~market.called
    /\ market' = MarketRecord("round_trip", impl,
                              [n |-> american_odds, d |-> 1],
                              round_trip(impl, american_odds))
    /\ UNCHANGED <<prog, calls, calc, heap, enh, nba, vis, series, applied,
                   finals, kcall, response, last>>

\* a call of FinalsAnalyzer.calculate_market_edge
CalculateMarketEdge(market_prob, true_prob) ==
    /\ prog = "market"
    /\ ~market.called
    /\ \E r \in {calculate_market_edge(market_prob, true_prob)} :
           market' = [called |-> TRUE, op |-> "calculate_market_edge",
                      impl |-> "market_analysis_professional",
                      input |-> FracOf(market_prob), true_prob |-> true_prob,
                      raised |-> r.raised, value |-> FracOf(0),
                      analysis |-> r.analysis]
    /\ UNCHANGED <<prog, calls, calc, heap, enh, nba, vis, series, applied,
                   finals, kcall, response, last>>

InitMarket ==
    /\ prog = "market"
    /\ NewObjects
    /\ enh = EnhancedEloCalculator_init(None)
    /\ series = NoSeries
    /\ finals = NoFinals
    /\ kcall = NoKCall
    /\ response = NoResponse
    /\ market = NoMarket

NextMarket ==
    \/ \E impl \in Converters, american_odds \in AmericanOdds :
          \/ AmericanToProbability(impl, american_odds)
          \/ OddsRoundTrip(impl, american_odds)
    \/ \E impl \in Converters, prob \in Probabilities :
          ProbabilityToAmerican(impl, prob)
    \/ \E decimal_odds \in DecimalOdds : DecimalToAmerican(decimal_odds)
    \/ \E market_prob \in Percentages, true_prob \in Percentages :
          CalculateMarketEdge(market_prob, true_prob)

SpecMarket == InitMarket /\ [][NextMarket]_vars

NextSeries ==
    \/ SeriesProbability
    \/ RemainingGamesBreakdown
    \/ FinalsSeriesProbability

SpecSeries == InitSeries /\ [][NextSeries]_vars

(***************************************************************************)
(* Properties.                                                             *)
(***************************************************************************)
\* d.get(key, default)
Get(d, key, default) == IF key \in DOMAIN d THEN d[key] ELSE default

\* the rating, record and history of team t in calculator i, in heap h
RatingOf(h, i, t) == Get(h[calc[i].team_elos], t, calc[i].initial_elo)
RecordOf(h, i, t) == Get(h[calc[i].team_records], t, NoRecord)
HistoryOf(h, i, t) == Get(h[calc[i].elo_history], t, <<>>)

\* season key of calculator e, as initialize_season would create it
SeasonOf(e, key) == Get(e.season_data, key, NewSeason)

\* key t is the same in dictionaries d1 and d2: absent in both, or present
\* in both with one value
SameAt(d1, d2, t) ==
    /\ (t \in DOMAIN d1) <=> (t \in DOMAIN d2)
    /\ t \in DOMAIN d1 => d1[t] = d2[t]

RECURSIVE SumOver(_, _)
SumOver(S, f) ==
    IF S = {} THEN 0
    ELSE LET x == CHOOSE y \in S : TRUE
         IN  f[x] + SumOver(S \ {x}, f)

\* the last operation made rating updates and none failed
Updated == last.trace # <<>>

\* C1: in every update_elo call between two distinct teams the two rating
\* changes cancel: (new_rating_a - rating_a) + (new_rating_b - rating_b) = 0.
C1_ZeroSum ==
    \A j \in 1..Len(last.trace) :
        LET e == last.trace[j]
        IN  (e.new_rating_a - e.rating_a) + (e.new_rating_b - e.rating_b) = 0

\* an update between teams of unequal ratings that moved both ratings
C1_Witness ==
    /\ prog = "app"
    /\ Updated
    /\ last.trace[1].rating_a # last.trace[1].rating_b
    /\ last.trace[1].new_rating_a # last.trace[1].rating_a
    /\ last.trace[1].new_rating_b # last.trace[1].rating_b

\* C2: update_elo computes both expected scores from the two ratings as they
\* were before the call: each new rating is the old one plus
\* k_factor * mov * (actual - expected(own old rating, other old rating)).
C2_SimultaneousUpdate ==
    \A j \in 1..Len(last.trace) :
        LET e        == last.trace[j]
            mov      == mov_multiplier(Abs(e.score_a - e.score_b))
            actual_a == IF e.score_a > e.score_b THEN 1 ELSE 0
        IN  /\ e.new_rating_a =
                 e.rating_a + rating_change(e.k_factor, mov, actual_a,
                                  expected_score(e.rating_a, e.rating_b))
            /\ e.new_rating_b =
                 e.rating_b + rating_change(e.k_factor, mov, 1 - actual_a,
                                  expected_score(e.rating_b, e.rating_a))

\* an update of a season in which the first rating written differs from
\* the one read, so that a sequential update would have used another value
C2_Witness ==
    /\ prog = "enhanced"
    /\ last.op = "update_elo"
    /\ Updated
    /\ last.trace[1].rating_a # last.trace[1].rating_b
    /\ last.trace[1].new_rating_a # last.trace[1].rating_a
    /\ last.trace[1].score_a # last.trace[1].score_b

\* C3: the update_elo calls that process_season and main issue for a loaded
\* game list are in non-decreasing game date.
C3_NonDecreasingDates ==
    last.op \in {"process_season", "main"} =>
        \A j \in 1..(Len(last.trace) - 1) :
            last.trace[j].date <= last.trace[j + 1].date

\* C4: an update_elo call that raises leaves the engine state exactly as it
\* was: no rating, record or history entry changed or created.
C4_FailedUpdateLeavesState ==
    [][(prog = "app" /\ last'.op = "update_elo" /\ last'.raised)
          => heap' = heap]_vars

\* C5: for a tied score update_elo leaves both ratings unchanged and scores
\* the game as an away win: team_b's wins and team_a's losses increase by
\* one.
C5_TieIsAwayWin ==
    [][(prog = "app" /\ last'.op = "update_elo"
           /\ last'.score_a = last'.score_b)
          => LET i == last'.target
                 a == last'.team_a
                 b == last'.team_b
             IN  /\ RatingOf(heap', i, a) = RatingOf(heap, i, a)
                 /\ RatingOf(heap', i, b) = RatingOf(heap, i, b)
                 /\ RecordOf(heap', i, b) =
                        [wins   |-> RecordOf(heap, i, b).wins + 1,
                         losses |-> RecordOf(heap, i, b).losses]
                 /\ RecordOf(heap', i, a) =
                        [wins   |-> RecordOf(heap, i, a).wins,
                         losses |-> RecordOf(heap, i, a).losses + 1]]_vars

\* a tied game applied without failure between teams of unequal ratings
C5_Witness ==
    /\ prog = "app"
    /\ last.op = "update_elo"
    /\ Updated
    /\ last.score_a = last.score_b
    /\ last.trace[1].rating_a # last.trace[1].rating_b
    /\ RecordOf(heap, last.target, last.team_b).wins >= 1

Winner(g) == IF g.score_a > g.score_b THEN g.team_a ELSE g.team_b
Loser(g) == IF g.score_a > g.score_b THEN g.team_b ELSE g.team_a

\* C6: after any sequence of update_elo calls on a fresh app EloCalculator
\* the wins of a team are the games it won and its losses the games it
\* lost; total wins = total losses = games applied, and wins + losses of a
\* team = games it took part in.
C6_WinLossCounters ==
    prog = "app" =>
        \A i \in Instances :
            LET games  == applied[i]
                wins   == [t \in Teams |-> RecordOf(heap, i, t).wins]
                losses == [t \in Teams |-> RecordOf(heap, i, t).losses]
            IN  /\ DOMAIN heap[calc[i].team_records] \subseteq Teams
                /\ SumOver(Teams, wins) = Len(games)
                /\ SumOver(Teams, losses) = Len(games)
                /\ \A t \in Teams :
                     /\ wins[t] = Cardinality({j \in 1..Len(games) :
                                                  Winner(games[j]) = t})
                     /\ losses[t] = Cardinality({j \in 1..Len(games) :
                                                  Loser(games[j]) = t})
                     /\ wins[t] + losses[t] =
                          Cardinality({j \in 1..Len(games) :
                              t \in {games[j].team_a, games[j].team_b}})

\* a calculator with two games applied and a team that won one and lost one
C6_Witness ==
    /\ prog = "app"
    /\ \E i \in Instances, t \in Teams :
          /\ Len(applied[i]) = 2
          /\ RecordOf(heap, i, t) = [wins |-> 1, losses |-> 1]

\* what C7 asks of the history of team t: one entry more, the earlier ones
\* as they were, the new one carrying rating
OneMore(old, new, rating, elo_of(_)) ==
    /\ Len(new) = Len(old) + 1
    /\ SubSeq(new, 1, Len(old)) = old
    /\ elo_of(new[Len(new)]) = rating

\* C7 for app.py: the step is an update_elo of calculator i
C7_App ==
    LET i == last'.target
        a == last'.team_a
        b == last'.team_b
    IN  /\ \A t \in {a, b} :
              OneMore(HistoryOf(heap, i, t), HistoryOf(heap', i, t),
                      RatingOf(heap', i, t), LAMBDA entry : entry.elo)
        /\ \A t \in Teams \ {a, b} :
              /\ SameAt(heap[calc[i].team_elos], heap'[calc[i].team_elos], t)
              /\ SameAt(heap[calc[i].team_records],
                        heap'[calc[i].team_records], t)
              /\ SameAt(heap[calc[i].elo_history],
                        heap'[calc[i].elo_history], t)

\* C7 for enhanced_elo_calculator.py: the step is an update_elo of the
\* season last'.target
C7_Enhanced ==
    LET old == SeasonOf(enh, last'.target)
        new == SeasonOf(enh', last'.target)
        a   == last'.team_a
        b   == last'.team_b
    IN  /\ \A t \in {a, b} :
              OneMore(Get(old.elo_history, t, <<>>),
                      Get(new.elo_history, t, <<>>),
                      Get(new.team_elos, t, enh.initial_elo),
                      LAMBDA entry : entry)
        /\ \A t \in Teams \ {a, b} :
              /\ SameAt(old.team_elos, new.team_elos, t)
              /\ SameAt(old.elo_history, new.elo_history, t)

\* C7: each update_elo call appends exactly one entry to the history of
\* each of the two teams, carrying the team's new current rating; earlier
\* entries and every other team's rating, record and history are unchanged.
C7_HistoryAndFrame ==
    [][(last'.op = "update_elo" /\ ~last'.raised)
          => IF prog = "app" THEN C7_App ELSE C7_Enhanced]_vars

\* an update of a team that already had a history entry, with a third team
\* present
C7_Witness ==
    /\ prog = "app"
    /\ last.op = "update_elo"
    /\ Updated
    /\ Len(HistoryOf(heap, last.target, last.team_a)) = 2
    /\ \E t \in Teams \ {last.team_a, last.team_b} :
          t \in DOMAIN heap[calc[last.target].team_elos]

\* C8 for app.py: calculators other than the one updated keep their state
C8_App ==
    \A j \in Instances \ {last'.target} :
        /\ heap'[calc[j].team_elos] = heap[calc[j].team_elos]
        /\ heap'[calc[j].team_records] = heap[calc[j].team_records]
        /\ heap'[calc[j].elo_history] = heap[calc[j].elo_history]

\* C8 for enhanced_elo_calculator.py: seasons other than the one the call
\* names (the current one when it names none) keep their state
C8_Enhanced ==
    LET k == IF last'.season_id # None THEN last'.season_id
             ELSE enh.current_season_id
    IN  \A s \in (Seasons \cup {None}) \ {k} :
            /\ SeasonOf(enh', s).team_elos = SeasonOf(enh, s).team_elos
            /\ SeasonOf(enh', s).elo_history = SeasonOf(enh, s).elo_history

\* C8: rating state is never shared: an update_elo applied to one
\* EloCalculator, or to one season of an EnhancedEloCalculator, leaves the
\* ratings and histories of every other calculator and season unchanged.
C8_NoSharing ==
    [][last'.op = "update_elo"
          => IF prog = "app" THEN C8_App ELSE C8_Enhanced]_vars

\* an update of one season while another season holds ratings
C8_Witness ==
    /\ prog = "enhanced"
    /\ last.op = "update_elo"
    /\ Updated
    /\ \E s \in DOMAIN enh.season_data \ {last.target} :
          enh.season_data[s].team_elos # EmptyDict

\* a best-of-7 series in progress: 0 <= wins_a, wins_b < 4
InProgress(args) ==
    /\ args.games_needed = 4
    /\ args.wins_a < 4
    /\ args.wins_b < 4

\* the continuations of a series with n games left: the winners of the next
\* 1..n games
Continuations(n) == UNION {[1..m -> {"A", "B"}] : m \in 1..n}

\* the wins of a side after the first k games of continuation c
WinsAfter(args, c, k, side) ==
    (IF side = "A" THEN args.wins_a ELSE args.wins_b)
    + Cardinality({j \in 1..k : c[j] = side})

\* continuation c ends with A reaching 4 wins, neither side having had 4
\* before its last game
AReachesFourFirst(args, c) ==
    /\ WinsAfter(args, c, Len(c), "A") = 4
    /\ \A k \in 0..(Len(c) - 1) :
          /\ WinsAfter(args, c, k, "A") < 4
          /\ WinsAfter(args, c, k, "B") < 4

\* the holder of home court is at home in games 1, 2, 5 and 7
AHomeInGame(args, g) == (g \in {1, 2, 5, 7}) <=> args.a_has_home_court

\* the product of the per-game probabilities of the first k games of c, over
\* ProbDen^k
RECURSIVE PathProduct(_, _, _)
PathProduct(args, c, k) ==
    IF k = 0 THEN 1
    ELSE LET g == args.wins_a + args.wins_b + k
             p == IF AHomeInGame(args, g) THEN args.prob_a_home
                                          ELSE args.prob_a_away
         IN  PathProduct(args, c, k - 1)
             * (IF c[k] = "A" THEN p ELSE ProbDen - p)

\* the sum over the continuations in which A reaches 4 wins first, over
\* ProbDen^(games left)
PathSum(args) ==
    LET left  == 7 - (args.wins_a + args.wins_b)
        paths == {c \in Continuations(left) : AReachesFourFirst(args, c)}
    IN  SumOver(paths,
                [c \in paths |-> PathProduct(args, c, Len(c))
                                 * IntPow(ProbDen, left - Len(c))])

\* C9: for every in-progress best-of-7 state the function returns the sum,
\* over every continuation in which A reaches 4 wins before B, of the product
\* of the per-game probabilities along it.
C9_RecursionEqualsPathSum ==
    (series.called /\ InProgress(series.args)) =>
        series.result =
            [n |-> PathSum(series.args),
             d |-> IntPow(ProbDen,
                          7 - (series.args.wins_a + series.args.wins_b))]

\* a call at 1-2 with different home and away probabilities, the result
\* strictly between 0 and 1
C9_Witness ==
    /\ series.called
    /\ InProgress(series.args)
    /\ series.args.wins_a = 1
    /\ series.args.wins_b = 2
    /\ series.args.prob_a_home # series.args.prob_a_away
    /\ 0 < series.result.n
    /\ series.result.n < series.result.d

\* the state seen from B: win counts swapped, the other side holding home
\* court, B's per-game probabilities
Mirrored(args) ==
    [wins_a |-> args.wins_b, wins_b |-> args.wins_a,
     prob_a_home |-> ProbDen - args.prob_a_away,
     prob_a_away |-> ProbDen - args.prob_a_home,
     a_has_home_court |-> ~args.a_has_home_court,
     games_needed |-> args.games_needed]

\* C10: for every in-progress state the probability that A wins the series
\* plus the probability computed for B in the mirrored state is exactly 1.
C10_Complementarity ==
    (series.called /\ InProgress(series.args)) =>
        LET b == calculate_series_probability_nba_format(
                     Mirrored(series.args))
        IN  /\ b.d = series.result.d
            /\ series.result.n + b.n = series.result.d

\* a call in which B holds home court, with different home and away
\* probabilities and a result strictly between 0 and 1
C10_Witness ==
    /\ series.called
    /\ InProgress(series.args)
    /\ ~series.args.a_has_home_court
    /\ series.args.wins_a + series.args.wins_b >= 1
    /\ series.args.prob_a_home # series.args.prob_a_away
    /\ 0 < series.result.n
    /\ series.result.n < series.result.d

\* the call c = (a_wins, b_wins, current_game) of dp took the
\* "current_game > 7" return: neither side has games_needed wins and no game
\* is left in the venue pattern
FellBack(args, c) ==
    /\ c[1] < args.games_needed
    /\ c[2] < args.games_needed
    /\ c[3] > 7

\* C11: the series model works for every games_needed >= 1: the recursion
\* plays games up to 2*games_needed - 1 and never returns 0 from a state in
\* which neither side has reached games_needed wins.
C11_AnyGamesNeeded ==
    series.called => \A c \in series.calls : ~FellBack(series.args, c)

\* C14: calculate_series_probability_nba_format returns 1.0 without
\* recursing whenever wins_a >= games_needed, and 0.0 without recursing
\* whenever wins_b >= games_needed and wins_a < games_needed.
C14_SeriesBoundary ==
    series.called =>
        /\ series.args.wins_a >= series.args.games_needed
              => /\ series.result = [n |-> 1, d |-> 1]
                 /\ series.calls = {}
        /\ (series.args.wins_a < series.args.games_needed
               /\ series.args.wins_b >= series.args.games_needed)
              => /\ series.result = [n |-> 0, d |-> 1]
                 /\ series.calls = {}

\* a call in which A has exactly games_needed wins and B one less, the
\* per-game probabilities strictly between 0 and 1
C14_Witness ==
    /\ series.called
    /\ series.args.wins_a = series.args.games_needed
    /\ series.args.wins_b = series.args.games_needed - 1
    /\ series.args.prob_a_home \in 1..(ProbDen - 1)
    /\ series.args.prob_a_away \in 1..(ProbDen - 1)
    /\ series.result = [n |-> 1, d |-> 1]

\* the per-game probability p/ProbDen is 0.5
IsHalf(p) == 2 * p = ProbDen

\* C15: when prob_a_home = prob_a_away = 0.5 the series win probability
\* from (0, 0) is exactly 0.5, whichever side holds home court (best of 7).
C15_SeriesSymmetry ==
    (/\ series.called
     /\ series.args.games_needed = 4
     /\ series.args.wins_a = 0
     /\ series.args.wins_b = 0
     /\ IsHalf(series.args.prob_a_home)
     /\ IsHalf(series.args.prob_a_away))
        => 2 * series.result.n = series.result.d

\* a call from (0, 0) with both probabilities 0.5 and B holding home court
C15_Witness ==
    /\ series.called
    /\ series.args.games_needed = 4
    /\ series.args.wins_a = 0
    /\ series.args.wins_b = 0
    /\ IsHalf(series.args.prob_a_home)
    /\ IsHalf(series.args.prob_a_away)
    /\ ~series.args.a_has_home_court
    /\ series.result.n > 0

\* a call of the Finals simulation that plays a game: neither side has 4
\* wins and a game remains
FinalsPlays(locations, c) ==
    c[1] # 4 /\ c[2] # 4 /\ c[3] < Len(locations)

\* the number, in the series, of the game at game_index: index 0 is game 2
FinalsGameNumber(game_index) == game_index + 2

\* C12: every series-probability routine uses the one 2-2-1-1-1 venue
\* pattern: in every game the Finals scripts play, the Thunder, who hold
\* home-court advantage, are at home exactly when the game is one of
\* games 1, 2, 5 and 7, the games app.py gives the higher seed.
C12_SameVenuePattern ==
    finals.called =>
        \A c \in finals.calls :
            FinalsPlays(LocationsOf(prog), c) =>
                ((LocationsOf(prog)[c[3] + 1] = "thunder_home")
                    <=> (FinalsGameNumber(c[3]) \in higher_seed_home_games))

\* the Finals simulation fell back at call c: neither side has 4 wins and no
\* game remains
FinalsFellBack(locations, c) ==
    c[1] # 4 /\ c[2] # 4 /\ c[3] >= Len(locations)

\* C13: in every state the series recursion visits, the game index is
\* a_wins + b_wins + 1 (in the Finals scripts, whose index 0 is game 2, the
\* game number is pacers_wins + thunder_wins + 1); so for games_needed = 4
\* and win counts in 0..3, and in the Finals scripts, no fallback for a
\* game index past the last game is reached while neither side has 4 wins.
C13_GameIndexIsGamesPlayedPlusOne ==
    /\ series.called =>
          \A c \in series.calls :
              /\ c[3] = c[1] + c[2] + 1
              /\ InProgress(series.args) => ~FellBack(series.args, c)
    /\ finals.called =>
          \A c \in finals.calls :
              /\ FinalsGameNumber(c[3]) = c[1] + c[2] + 1
              /\ ~FinalsFellBack(LocationsOf(prog), c)

\* a Finals run that went to a seventh game
C13_Witness ==
    /\ finals.called
    /\ finals.probs.thunder_home_prob \in 1..(ProbDen - 1)
    /\ finals.probs.pacers_home_prob \in 1..(ProbDen - 1)
    /\ \E c \in finals.calls : c[3] = Len(LocationsOf(prog)) /\ c[1] = 4
    /\ \E c \in finals.calls : c[3] = Len(LocationsOf(prog)) /\ c[2] = 4

\* the games after the ones played at which the series recursion treats A as
\* at home
RecursionHomeGames(args) ==
    {g \in (args.wins_a + args.wins_b + 1)..7 :
        a_at_home(args.a_has_home_court, g)}

\* the elements of a sequence
Range(seq) == {seq[i] : i \in DOMAIN seq}

\* C16: get_remaining_games_breakdown agrees with the venue table of the
\* series recursion: for an in-progress state and either holder of home
\* court, the games it counts as A's home games are the games g with
\* wins_a + wins_b < g <= 7 at which the recursion has A at home, and
\* a_remaining_home is their number; a_remaining_home + a_remaining_away =
\* 7 - (wins_a + wins_b); B's counts are A's swapped.
C16_BreakdownAgreesWithRecursion ==
    (series.broken_down /\ InProgress(series.args)) =>
        LET args == series.args
            b == series.breakdown
        IN  /\ Range(counted_for_a(b.remaining_games, args.a_has_home_court))
                   = RecursionHomeGames(args)
            /\ b.a_remaining_home = Cardinality(RecursionHomeGames(args))
            /\ Range(b.remaining_games) = (args.wins_a + args.wins_b + 1)..7
            /\ b.a_remaining_home + b.a_remaining_away
                   = 7 - (args.wins_a + args.wins_b)
            /\ b.b_remaining_home = b.a_remaining_away
            /\ b.b_remaining_away = b.a_remaining_home

\* a breakdown at 2-2 for a team A without home court: game 6 is A's only
\* home game left
C16_Witness ==
    /\ series.broken_down
    /\ InProgress(series.args)
    /\ series.args.wins_a = 2 /\ series.args.wins_b = 2
    /\ ~series.args.a_has_home_court
    /\ series.breakdown.a_remaining_home = 1
    /\ series.breakdown.a_remaining_away = 2

\* the win count a series request carries under key, 0 when it has none
RequestWins(key) == Data_get_default(response.request, key, 0)

\* C17: a series request whose win counts lie outside 0..3, or in which a
\* side already has 4 wins, is answered with a validation error (status
\* 400 and an error message) and with no probability value.
C17_InvalidWinsRejected ==
    (/\ response.endpoint = "series_probability"
     /\ RequestWins("wins_a").kind = "int"
     /\ RequestWins("wins_b").kind = "int"
     /\ \/ RequestWins("wins_a").v \notin 0..3
        \/ RequestWins("wins_b").v \notin 0..3)
    => /\ response.status = 400
       /\ DOMAIN response.body = {"error"}

\* a complete request for a series standing 4-2
C17_Witness ==
    /\ response.endpoint = "series_probability"
    /\ \A key \in {"team_a", "team_b", "elo_a", "elo_b", "rank_a", "rank_b"} :
          Truthy(response.request[key])
    /\ response.request.wins_a = Number(4)
    /\ response.request.wins_b = Number(2)
    /\ response.status = 400
    /\ response.body.error = "Series is already over"

\* Kstart of the K-factor call made: initial_k, 1.5 times it in the
\* playoffs of the enhanced calculator, 40 in app.py
Kstart ==
    CASE kcall.impl = "nba" -> [n |-> nba.initial_k, d |-> 1]
      [] kcall.impl = "enhanced" ->
            IF kcall.is_playoffs THEN [n |-> 3 * enh.initial_k, d |-> 2]
                                 ELSE [n |-> enh.initial_k, d |-> 1]
      [] OTHER -> [n |-> 40, d |-> 1]

\* Kmin of the K-factor call made: min_k, 10 in app.py
Kmin ==
    CASE kcall.impl = "nba" -> nba.min_k
      [] kcall.impl = "enhanced" -> enh.min_k
      [] OTHER -> 10

\* the fractions f and g are equal
SameFraction(f, g) == f.n * g.d = g.n * f.d

\* C18: the decreasing K-factor is Kstart at game_number = 0, Kmin at
\* game_number = total_games, and never below Kmin.
C18_DecreasingFromKstartToKmin ==
    (kcall.called /\ kcall.type = "decreasing" /\ ~kcall.raised
       /\ kcall.total_games > 0) =>
        /\ kcall.game_number = 0 => SameFraction(kcall.k, Kstart)
        /\ kcall.game_number = kcall.total_games =>
              SameFraction(kcall.k, [n |-> Kmin, d |-> 1])
        /\ kcall.k.n >= Kmin * kcall.k.d

\* C19: with total_games = 0 the decreasing K-factor is Kstart and no
\* division by zero happens, in every implementation.
C19_ZeroTotalGamesGivesKstart ==
    (kcall.called /\ kcall.type = "decreasing" /\ kcall.total_games = 0) =>
        /\ ~kcall.raised
        /\ SameFraction(kcall.k, Kstart)

\* the answer made is to a request whose season has no usable game
EmptySeasonAnswered ==
    /\ response.endpoint \in {"calculate_elo", "win_probability",
                              "betting_analysis"}
    /\ load_games_data_or_empty(response.request.season_file) = <<>>

\* C20: with an empty game sequence a request is answered with an error or
\* with an empty rating set, and never with ratings or probabilities made
\* from the baseline rating of teams that played no game.
C20_EmptyDataNoFabrication ==
    EmptySeasonAnswered =>
        \/ response.status >= 400 /\ DOMAIN response.body = {"error"}
        \/ /\ response.endpoint = "calculate_elo"
           /\ response.body.results = {}

\* C21: for the American odds +150, -200 and +100, the odds turned into a
\* probability and back differ from the odds by at most 1.
C21_OddsRoundTrip ==
    (market.called /\ market.op = "round_trip"
       /\ market.input.n \in {150, -200, 100}) =>
        /\ ~market.raised
        /\ Abs(market.value.n - market.input.n) <= 1

\* the probability p lies strictly between 0 and 1
InUnitInterval(p) == 0 < p.n /\ p.n < p.d

\* the exact American odds of a probability p in (0, 1), as a fraction:
\* -100 p / (1 - p) for p >= 0.5, 100 (1 - p) / p otherwise
ExactAmerican(p) ==
    IF 2 * p.n >= p.d THEN [n |-> -100 * p.n, d |-> p.d - p.n]
    ELSE [n |-> 100 * (p.d - p.n), d |-> p.n]

\* C22: for every probability in (0, 1), probability_to_american returns
\* the integer nearest to the exact odds (rounding, not truncation).
C22_RoundsToNearest ==
    (market.called /\ market.op = "probability_to_american"
       /\ InUnitInterval(market.input)) =>
        /\ ~market.raised
        /\ 2 * Abs(market.value.n * ExactAmerican(market.input).d
                   - ExactAmerican(market.input).n)
               <= ExactAmerican(market.input).d

\* C23: a conversion given American odds of 0, or a probability that is
\* not strictly between 0 and 1, fails instead of returning a value.
C23_OutOfDomainFails ==
    (/\ market.called
     /\ \/ market.op = "american_to_probability" /\ market.input.n = 0
        \/ market.op = "probability_to_american"
             /\ ~InUnitInterval(market.input))
    => market.raised

\* calculate_market_edge returned for the percentages market_prob and
\* true_prob of the call made
EdgeReturned ==
    market.called /\ market.op = "calculate_market_edge" /\ ~market.raised

\* C24: the Kelly fraction calculate_market_edge returns is never negative;
\* for market odds above 1 (market_prob below 100) it is
\* max(0, (b p - q) / b), which with b = 100 / market_prob - 1,
\* p = true_prob / 100 and q = 1 - p is
\* max(0, (true_prob - market_prob) / (100 - market_prob)); for market odds
\* of 1 or less it is 0.
C24_KellyFraction ==
    EdgeReturned =>
        LET m == market.input.n
            t == market.true_prob
            kelly == market.analysis.kelly_criterion
        IN  /\ kelly.n >= 0
            /\ m < 100 =>
                  IF t > m THEN SameFraction(kelly, [n |-> t - m, d |-> 100 - m])
                  ELSE kelly.n = 0
            /\ m >= 100 => kelly.n = 0

\* an analysis whose unclamped Kelly fraction is negative: the true
\* probability is below the market's
C24_Witness ==
    /\ EdgeReturned
    /\ market.input.n = 50
    /\ market.true_prob = 30
    /\ market.analysis.kelly_criterion = FracOf(0)
    /\ market.analysis.estimated_edge.n < 0

\* C29: for a market_prob strictly between 0 and 100 the expected value
\* calculate_market_edge returns equals the edge; the Kelly fraction is
\* positive exactly when true_prob is above market_prob, and is at most 1
\* for true_prob up to 100.
C29_ExpectedValueIsEdge ==
    (EdgeReturned /\ market.input.n > 0 /\ market.input.n < 100) =>
        /\ SameFraction(market.analysis.expected_value,
                        market.analysis.estimated_edge)
        /\ market.analysis.kelly_criterion.n > 0
               <=> market.true_prob > market.input.n
        /\ market.true_prob <= 100 =>
               market.analysis.kelly_criterion.n
                   <= market.analysis.kelly_criterion.d

\* an analysis with a positive edge: market 20%, true probability 40%
C29_Witness ==
    /\ EdgeReturned
    /\ market.input.n = 20
    /\ market.true_prob = 40
    /\ market.analysis.expected_value = FracOf(1)
    /\ market.analysis.kelly_criterion = [n |-> 1, d |-> 4]

\* C25: when process_season returns on a freshly initialized season, the
\* season's game_count equals the reported total_games and games_processed
\* is the list of the loaded games, each once, whatever their stages.
C25_EveryLoadedGameOnce ==
    (prog = "enhanced" /\ last.op = "process_season") =>
        /\ enh.season_data[last.target].game_count = last.result.total_games
        /\ enh.season_data[last.target].games_processed = last.games

\* C26: over the games nba_elo_calculator.main processes, regular season
\* first and playoffs after, the K-factor passed to update_elo never rises
\* from one game to the next; every playoff game gets a K-factor no higher
\* than the last regular-season game's.
C26_KNonIncreasing ==
    (prog = "nba" /\ last.op = "main") =>
        \A i \in 1..Len(last.trace) : \A j \in 1..Len(last.trace) :
            i < j =>
                last.trace[j].k_factor.n * last.trace[i].k_factor.d
                    <= last.trace[i].k_factor.n * last.trace[j].k_factor.d

\* the sum of the ratings of a team_elos dictionary
RECURSIVE SumRatings(_)
SumRatings(d) ==
    IF DOMAIN d = {} THEN 0
    ELSE LET t == CHOOSE x \in DOMAIN d : TRUE
         IN  d[t] + SumRatings([x \in DOMAIN d \ {t} |-> d[x]])

\* the ratings of d add up to initial_elo for each team in it
MassConserved(d, initial_elo) ==
    SumRatings(d) = initial_elo * Cardinality(DOMAIN d)

\* C27: after any sequence of update_elo calls on a fresh calculator, each
\* between two distinct teams, the ratings of the teams that have appeared
\* add up to initial_elo times the number of those teams (app.py: each
\* calculator; enhanced_elo_calculator.py: each season).
C27_RatingMassConserved ==
    /\ prog = "app" =>
           \A i \in Instances :
               MassConserved(heap[calc[i].team_elos], calc[i].initial_elo)
    /\ prog = "enhanced" =>
           \A sid \in DOMAIN enh.season_data :
               MassConserved(enh.season_data[sid].team_elos, enh.initial_elo)

\* two updates of one calculator after which all three teams have appeared
\* and no rating is the initial one
C27_Witness ==
    /\ prog = "app"
    /\ calls = 2
    /\ \E i \in Instances :
           /\ DOMAIN heap[calc[i].team_elos] = Teams
           /\ \A t \in Teams :
                  heap[calc[i].team_elos][t] # calc[i].initial_elo

\* C28: get_season_data, get_season_rankings and format_season_display,
\* called with any season_id, leave current_season_id unchanged (so that an
\* update_elo without season_id still targets the season of the last
\* initialize_season), and initialize_season leaves the data of a season
\* that already has data as it is.
C28_ReadKeepsActiveSeason ==
    [][/\ (prog = "enhanced" /\ last'.op \in Readers /\ calls' = calls + 1)
              => enh'.current_season_id = enh.current_season_id
       /\ (prog = "enhanced" /\ last'.op = "initialize_season"
               /\ calls' = calls + 1)
              => \A sid \in DOMAIN enh.season_data :
                     enh'.season_data[sid] = enh.season_data[sid]]_vars

\* C30: an update_elo with a K-factor above 0 does not lower the winning
\* team's rating and does not raise the losing team's, whatever the two
\* pre-game ratings; with a score margin of 1 or more both ratings change.
C30_DirectionOfChange ==
    \A j \in 1..Len(last.trace) :
        LET e == last.trace[j]
            winner_up(old_w, new_w, old_l, new_l) ==
                /\ new_w >= old_w
                /\ new_l <= old_l
                /\ Abs(e.score_a - e.score_b) >= 1 =>
                       (new_w > old_w /\ new_l < old_l)
        IN  e.k_factor.n > 0 =>
                /\ e.score_a > e.score_b =>
                       winner_up(e.rating_a, e.new_rating_a,
                                 e.rating_b, e.new_rating_b)
                /\ e.score_b > e.score_a =>
                       winner_up(e.rating_b, e.new_rating_b,
                                 e.rating_a, e.new_rating_a)

\* a one-point win of the team rated 600 points above the other
C30_Witness ==
    /\ prog = "nba"
    /\ Updated
    /\ last.trace[1].score_b = last.trace[1].score_a + 1
    /\ last.trace[1].rating_b =
           last.trace[1].rating_a + 2 * MaxRatingSteps * RatingStep * RatingScale
    /\ last.trace[1].new_rating_b > last.trace[1].rating_b
    /\ last.trace[1].new_rating_a < last.trace[1].rating_a

================================================================
